---- MODULE Spec2Model ----
(***************************************************************************)
(* Model of github.com/gburgyan/go-timing: the Location timing tree        *)
(* (location.go), the context entry points (context.go) and the report     *)
(* renderers (output.go).                                                   *)
(*                                                                          *)
(* Spec and SpecTree run goroutines through the library calls one          *)
(* shared-memory access at a time: every atomic operation and every        *)
(* mutex-protected section of the source is one step, so that all           *)
(* interleavings the Go scheduler allows are explored.  SpecSeq runs a      *)
(* single caller making whole calls one after the other; SpecReport         *)
(* reports finished timing trees.  Strings are sequences of byte codes, so  *)
(* that concatenation and sort.Strings are computed as the code computes    *)
(* them.                                                                    *)
(*                                                                          *)
(* uint32 / int64 fields are plain integers here: the bounds keep every    *)
(* counter far below 2^32 and every duration far below 2^63.               *)
(***************************************************************************)
EXTENDS Integers, Sequences, FiniteSets, TLC

VARIABLES
    locs,     \* heap of Location objects; the index is the pointer
    spans,    \* one record per Location.Start call: the closure's captured variables
    gs,       \* per goroutine: position in the call it is running and its locals
    now,      \* monotonic clock read by time.Now / time.Since
    out,      \* what the last whole call of the single caller (SpecSeq) handed back
    timings   \* heap of Timing objects (timing.go): the cursor of one goroutine

vars == <<locs, spans, gs, now, out, timings>>

----------------------------------------------------------------------------
(* Bounds *)

NumGoroutines == 2
MaxSpan == 2        \* Start calls, in Spec
MaxInvoke == 3      \* invocations of Complete functions, in Spec
MaxTime == 1        \* clock ticks
TreeMaxLoc == 3     \* Locations, in SpecTree
TreeMaxSpan == 2    \* Start calls, in SpecTree
SeqMaxLoc == 2      \* Locations, in SpecSeq
SeqMaxSpan == 1     \* Start calls, in SpecSeq
SeqMaxInvoke == 2   \* invocations of Complete functions, in SpecSeq
SeqMaxDetails == 1  \* details entries, in SpecSeq
RepMaxLoc == 4      \* Locations of a reported tree, in SpecReport
RepMaxEntry == 1    \* EntryCount of a reported Location, in SpecReport
RepMaxDuration == 1 \* TotalDuration of a reported Location, in SpecReport
RootMaxLoc == 2      \* Locations, in SpecRoot
RootMaxSpan == 1     \* Start calls, in SpecRoot
CtxMaxLoc == 2       \* Locations, in SpecCtx
CtxMaxSpan == 2      \* Start calls, in SpecCtx
TimMaxLoc == 3       \* Locations, in SpecTiming
TimMaxSpan == 2      \* Start calls, in SpecTiming
TimMaxTiming == 2    \* Timing objects, in SpecTiming
MulMaxLoc == 3       \* Locations, in SpecMultiRoot
MulMaxSpan == 2      \* Start calls, in SpecMultiRoot
RaceMaxLoc == 2      \* Locations, in SpecRace
CntMaxLoc == 1      \* Locations of a reported tree, in SpecCounts
CntMaxEntry == 3    \* EntryCount of a reported Location, in SpecCounts
CntMaxDuration == 3 \* TotalDuration of a reported Location, in SpecCounts

Goroutines == 1..NumGoroutines

----------------------------------------------------------------------------
(* Strings as byte sequences *)

StrEmpty == <<>>
StrA == <<97>>                  \* "a"
StrAGtA == <<97, 62, 97>>       \* "a>a"
StrGt == <<62>>                 \* ">"

\* names a caller may pass; the empty name is the one ForName rejects
Names == {StrA, StrAGtA}
ArgNames == Names \cup {StrEmpty}

\* nil results: no timing Context on the context chain, no Location yet,
\* no Complete function yet, an unlocked mutex
NoCtx == 0
BadCtx == -1   \* ctx.Value(ContextTimingKey) is not a *Context
NilCtx == -2   \* a nil context.Context
NoLoc == 0
NoSpan == 0
NoOwner == 0

EmptyMap == [x \in {} |-> 0]

\* nothing handed back: the call returned a Context or a Complete function
NoOut == [kind |-> "none"]

----------------------------------------------------------------------------
(* Location (location.go) *)

\* &Location{Name: name}; parent is a history field (0 for a root): the
\* Location under whose getChild call this object was allocated.
NewLocation(name, parent) ==
    [ Name |-> name,
      Children |-> EmptyMap,
      EntryCount |-> 0,
      ExitCount |-> 0,
      TotalDuration |-> 0,
      Async |-> FALSE,
      Details |-> EmptyMap,
      CallOrder |-> <<>>,
      mu |-> NoOwner,
      parent |-> parent ]

LocIds == 1..Len(locs)
SpanIds == 1..Len(spans)

\* closure state of one Start call: startTime, ended (captured variables of
\* the returned func) and l (the receiver); startTime is -1 until Start has
\* read the clock and returned.  invoked, ok, panics, endTime and raced are
\* history fields: how often callers invoked the Complete function, how many
\* of the invocations returned normally or panicked, when the successful one
\* was invoked, and whether an invocation began while another was running.
NewSpan(l) ==
    [ loc |-> l, startTime |-> -1, ended |-> 0,
      invoked |-> 0, ok |-> 0, panics |-> 0, endTime |-> -1, raced |-> FALSE ]

IdleG ==
    [ pc |-> "idle", op |-> "none", parent |-> NoLoc, name |-> StrEmpty,
      loc |-> NoLoc, span |-> NoSpan, d |-> 0, tInv |-> 0, found |-> FALSE,
      absentAtCall |-> FALSE, msg |-> "", value |-> StrEmpty, wasNil |-> FALSE,
      todo |-> <<>>, exclude |-> FALSE ]

\* sync/atomic
AtomicAddUint32(cur, delta) == cur + delta

\* l.TotalDuration = d instead of an addition
StoreInt64(cur, delta) == delta

AtomicAddInt64(cur, delta) == cur + delta

\* a swap that does not compare
SwapInt32(v, old, new) == [swapped |-> TRUE, value |-> new]

\* atomic.CompareAndSwapInt32(&v, old, new): <<swapped, value stored>>
CompareAndSwapInt32(v, old, new) ==
    IF v = old THEN [swapped |-> TRUE, value |-> new]
               ELSE [swapped |-> FALSE, value |-> v]

\* the operands of the subtraction exchanged
TimeUntil(startTime) == startTime - now

\* the clock reading itself instead of the time elapsed since startTime
TimeSinceEpoch(startTime) == now

\* time.Since(startTime) on the monotonic clock
TimeSince(startTime) == now - startTime

\* getChild without l.mu.Lock()
MutexIgnored(l) == TRUE

\* sync.Mutex: Lock returns only when no goroutine holds the mutex
MutexFree(l) == locs[l].mu = NoOwner

----------------------------------------------------------------------------
(* Helpers on the heap *)

SetG(g, r) == [gs EXCEPT ![g] = r]

\* the call has returned (normally): locals are dropped
Return(g) == SetG(g, IdleG)

\* the call panics with msg: the goroutine unwinds; what the call was about
\* stays visible until the caller's deferred recover runs
Panic(g, msg) == SetG(g, [gs[g] EXCEPT !.pc = "panicked", !.msg = msg])

\* recover() in the caller (assert.Panics in the tests)
Recover(g) ==
    /\ gs[g].pc = "panicked"
    /\ gs' = Return(g)
    /\ UNCHANGED <<locs, spans, now, out, timings>>

\* Idle goroutines hold no state and are interchangeable: a new call is
\* handed to the first idle one.
Free(g) == gs[g].pc = "idle" /\ \A h \in Goroutines : h < g => gs[h].pc # "idle"

StartOps == {"Start", "LocStart"}

\* goroutines that will still allocate a Location / a span in the call they run
PendingLocs == Cardinality({g \in Goroutines : gs[g].pc \in {"getChild", "insert"}})

PendingSpans ==
    Cardinality({g \in Goroutines :
        gs[g].op \in StartOps /\ gs[g].pc \in {"getChild", "insert", "unlock", "inc"}})

\* where a call continues once ForName has produced its Context
AfterForName(op) == IF op = "ForName" THEN "idle" ELSE "inc"

----------------------------------------------------------------------------
(* context.go: Start, ForName *)

\* ForName(ctx, name), entered from Start or directly.  ctx is
\* given by what findParentTiming(ctx) returns: NoCtx or a Location.
CallForName(g, ctx, name, op) ==
    /\ Free(g)
    /\ UNCHANGED <<spans, now, out, timings>>
    /\ IF name = StrEmpty
       THEN /\ gs' = SetG(g, [IdleG EXCEPT !.pc = "panicked", !.op = op,
                                !.msg = "non-root timings must be named"])
            /\ UNCHANGED locs
       ELSE /\ IF ctx = NoCtx
               THEN /\ locs' = Append(locs, NewLocation(name, NoLoc))
                    /\ gs' = SetG(g, [IdleG EXCEPT !.pc = AfterForName(op),
                                        !.op = IF AfterForName(op) = "idle" THEN "none" ELSE op,
                                        !.loc = Len(locs) + 1])
               ELSE /\ gs' = SetG(g, [IdleG EXCEPT !.pc = "getChild", !.op = op,
                                        !.parent = ctx, !.name = name,
                                        !.absentAtCall = name \notin DOMAIN locs[ctx].Children])
                    /\ UNCHANGED locs

\* c.Start() on a Context obtained earlier (repeated starts of one context)
CallLocStart(g, l) ==
    /\ Free(g)
    /\ gs' = SetG(g, [IdleG EXCEPT !.pc = "inc", !.op = "LocStart", !.loc = l])
    /\ UNCHANGED <<locs, spans, now, out, timings>>

----------------------------------------------------------------------------
(* location.go: getChild *)

\* the lookup never finds the name: a new Location on every call
GetChildLookupMiss(g) ==
    LET p == gs[g].parent
    IN  /\ gs[g].pc = "getChild"
        /\ MutexFree(p)
        /\ locs' = [locs EXCEPT ![p].mu = g]
        /\ gs' = SetG(g, [gs[g] EXCEPT !.pc = "insert", !.found = FALSE, !.loc = NoLoc])
        /\ UNCHANGED <<spans, now, out, timings>>

\* l.mu.Lock(); nil check; lookup of l.Children[name]
GetChildLookup(g) ==
    LET p == gs[g].parent
        hit == gs[g].name \in DOMAIN locs[p].Children
    IN  /\ gs[g].pc = "getChild"
        /\ MutexFree(p)
        /\ locs' = [locs EXCEPT ![p].mu = g]
        /\ gs' = SetG(g, [gs[g] EXCEPT
                    !.pc = IF hit THEN "unlock" ELSE "insert",
                    !.found = hit,
                    !.loc = IF hit THEN locs[p].Children[gs[g].name] ELSE NoLoc])
        /\ UNCHANGED <<spans, now, out, timings>>

\* the else branch with the name put at the front of CallOrder
InsertChildPrepend(p, name) ==
    Append([locs EXCEPT
              ![p].Children = (name :> (Len(locs) + 1)) @@ locs[p].Children,
              ![p].CallOrder = <<name>> \o locs[p].CallOrder],
           NewLocation(name, p))

\* the else branch: cl := &Location{Name: name}; l.Children[name] = cl;
\* l.CallOrder = append(l.CallOrder, name).  The heap after it; cl is the
\* new last object.
InsertChild(p, name) ==
    Append([locs EXCEPT
              ![p].Children = (name :> (Len(locs) + 1)) @@ locs[p].Children,
              ![p].CallOrder = Append(locs[p].CallOrder, name)],
           NewLocation(name, p))

\* the same on a heap h given as a value
InsertChildIn(h, p, name) ==
    Append([h EXCEPT
              ![p].Children = (name :> (Len(h) + 1)) @@ h[p].Children,
              ![p].CallOrder = Append(h[p].CallOrder, name)],
           NewLocation(name, p))

GetChildInsert(g) ==
    /\ gs[g].pc = "insert"
    /\ locs' = InsertChild(gs[g].parent, gs[g].name)
    /\ gs' = SetG(g, [gs[g] EXCEPT !.pc = "unlock", !.loc = Len(locs) + 1])
    /\ UNCHANGED <<spans, now, out, timings>>

\* deferred l.mu.Unlock(); return the Context
GetChildUnlock(g) ==
    /\ gs[g].pc = "unlock"
    /\ locs' = [locs EXCEPT ![gs[g].parent].mu = NoOwner]
    /\ gs' = IF AfterForName(gs[g].op) = "idle"
             THEN Return(g)
             ELSE SetG(g, [gs[g] EXCEPT !.pc = AfterForName(gs[g].op)])
    /\ UNCHANGED <<spans, now, out, timings>>

----------------------------------------------------------------------------
(* location.go: Location.Start and the Complete closure it returns *)

\* var ended int32; atomic.AddUint32(&l.EntryCount, 1)
StartInc(g) ==
    LET l == gs[g].loc IN
    /\ gs[g].pc = "inc"
    /\ locs' = [locs EXCEPT ![l].EntryCount = AtomicAddUint32(locs[l].EntryCount, 1)]
    /\ spans' = Append(spans, NewSpan(l))
    /\ gs' = SetG(g, [gs[g] EXCEPT !.pc = "startTime", !.span = Len(spans) + 1])
    /\ UNCHANGED <<now, out, timings>>

\* startTime := time.Now(); return func() {...}
StartNow(g) ==
    /\ gs[g].pc = "startTime"
    /\ spans' = [spans EXCEPT ![gs[g].span].startTime = now]
    /\ gs' = Return(g)
    /\ UNCHANGED <<locs, now, out, timings>>

\* goroutines inside the Complete function of span s
InComplete(s) == {g \in Goroutines : gs[g].span = s /\ gs[g].pc \in {"cas", "addExit", "addDur"}}

\* a caller invokes the Complete function s: d := time.Since(startTime)
CallComplete(g, s) ==
    /\ Free(g)
    /\ spans[s].startTime >= 0
    /\ spans' = [spans EXCEPT ![s].invoked = @ + 1,
                              ![s].raced = @ \/ InComplete(s) # {}]
    /\ gs' = SetG(g, [IdleG EXCEPT !.pc = "cas", !.op = "Complete", !.span = s,
                        !.loc = spans[s].loc,
                        !.d = TimeSince(spans[s].startTime), !.tInv = now])
    /\ UNCHANGED <<locs, now, out, timings>>

\* one ended flag per Location instead of one per Start call
EndedCellOfLocation(s) ==
    CHOOSE x \in SpanIds : spans[x].loc = spans[s].loc
                           /\ \A y \in SpanIds : spans[y].loc = spans[s].loc => x <= y

\* the variable the closure tests: its own ended
EndedCell(s) == s

\* if ended { panic(...) }; ended = true, as two separate accesses
CompleteTestThenSet(g) ==
    LET s == gs[g].span IN
    /\ gs[g].pc = "cas"
    /\ UNCHANGED <<locs, now, out, timings>>
    /\ IF ~gs[g].found
       THEN IF spans[s].ended # 0
            THEN /\ spans' = [spans EXCEPT ![s].panics = @ + 1]
                 /\ gs' = Panic(g, "timing already completed")
            ELSE /\ gs' = SetG(g, [gs[g] EXCEPT !.found = TRUE])
                 /\ UNCHANGED spans
       ELSE /\ spans' = [spans EXCEPT ![s].ended = 1, ![s].ok = @ + 1,
                                      ![s].endTime = gs[g].tInv]
            /\ gs' = SetG(g, [gs[g] EXCEPT !.pc = "addExit", !.found = FALSE])

\* the exit is counted before the double completion is detected
CompleteCountThenCAS(g) ==
    LET s == gs[g].span
        r == CompareAndSwapInt32(spans[s].ended, 0, 1)
    IN  /\ gs[g].pc = "cas"
        /\ UNCHANGED <<now, out, timings>>
        /\ IF r.swapped
           THEN /\ spans' = [spans EXCEPT ![s].ended = r.value, ![s].ok = @ + 1,
                                          ![s].endTime = gs[g].tInv]
                /\ gs' = SetG(g, [gs[g] EXCEPT !.pc = "addDur"])
                /\ locs' = [locs EXCEPT ![gs[g].loc].ExitCount = @ + 1]
           ELSE /\ spans' = [spans EXCEPT ![s].panics = @ + 1]
                /\ gs' = Panic(g, "timing already completed")
                /\ locs' = [locs EXCEPT ![gs[g].loc].ExitCount = @ + 1]

\* if !atomic.CompareAndSwapInt32(&ended, 0, 1) { panic(...) }
CompleteCAS(g) ==
    LET s == gs[g].span
        cell == EndedCell(s)
        r == CompareAndSwapInt32(spans[cell].ended, 0, 1)
    IN  /\ gs[g].pc = "cas"
        /\ IF r.swapped
           THEN /\ spans' = [[spans EXCEPT ![cell].ended = r.value]
                                EXCEPT ![s].ok = @ + 1, ![s].endTime = gs[g].tInv]
                /\ gs' = SetG(g, [gs[g] EXCEPT !.pc = "addExit"])
           ELSE /\ spans' = [spans EXCEPT ![s].panics = @ + 1]
                /\ gs' = Panic(g, "timing already completed")
        /\ UNCHANGED <<locs, now, out, timings>>

\* the entry counter is incremented where the exit counter is meant
CompleteAddEntry(g) ==
    LET l == gs[g].loc IN
    /\ gs[g].pc = "addExit"
    /\ locs' = [locs EXCEPT ![l].EntryCount = AtomicAddUint32(locs[l].EntryCount, 1)]
    /\ gs' = SetG(g, [gs[g] EXCEPT !.pc = "addDur"])
    /\ UNCHANGED <<spans, now, out, timings>>

\* atomic.AddUint32(&l.ExitCount, 1)
CompleteAddExit(g) ==
    LET l == gs[g].loc IN
    /\ gs[g].pc = "addExit"
    /\ locs' = [locs EXCEPT ![l].ExitCount = AtomicAddUint32(locs[l].ExitCount, 1)]
    /\ gs' = SetG(g, [gs[g] EXCEPT !.pc = "addDur"])
    /\ UNCHANGED <<spans, now, out, timings>>

\* the Complete function returns without adding the elapsed time
CompleteDropDur(g) ==
    /\ gs[g].pc = "addDur"
    /\ gs' = Return(g)
    /\ UNCHANGED <<locs, spans, now, out, timings>>

\* atomic.AddInt64((*int64)(&l.TotalDuration), int64(d))
CompleteAddDur(g) ==
    LET l == gs[g].loc IN
    /\ gs[g].pc = "addDur"
    /\ locs' = [locs EXCEPT ![l].TotalDuration = AtomicAddInt64(locs[l].TotalDuration, gs[g].d)]
    /\ gs' = Return(g)
    /\ UNCHANGED <<spans, now, out, timings>>

\* the monotonic clock advances
Tick ==
    /\ now < MaxTime
    /\ now' = now + 1
    /\ UNCHANGED <<locs, spans, gs, out, timings>>

----------------------------------------------------------------------------
(* output.go and location.go: the report renderers *)

StrGtDefault == <<32, 62, 32>>      \* " > "
StrBarDefault == <<32, 124, 32>>    \* " | "

\* sort.Strings: bytewise lexicographic order
RECURSIVE StrLess(_, _)
StrLess(a, b) ==
    IF b = <<>> THEN FALSE
    ELSE IF a = <<>> THEN TRUE
    ELSE IF a[1] # b[1] THEN a[1] < b[1]
    ELSE StrLess(Tail(a), Tail(b))

RECURSIVE SortStrings(_)
SortStrings(S) ==
    IF S = {} THEN <<>>
    ELSE LET m == CHOOSE x \in S : \A y \in S \ {x} : StrLess(x, y)
         IN  <<m>> \o SortStrings(S \ {m})

ChildIds(l) == {locs[l].Children[k] : k \in DOMAIN locs[l].Children}

RECURSIVE SumTotalDuration(_)
SumTotalDuration(S) ==
    IF S = {} THEN 0
    ELSE LET c == CHOOSE x \in S : TRUE IN locs[c].TotalDuration + SumTotalDuration(S \ {c})

RECURSIVE Descendants(_)
Descendants(l) == ChildIds(l) \cup UNION {Descendants(c) : c \in ChildIds(l)}

\* the durations of the whole subtree summed, not of the immediate children
TotalDescendantDuration(l) == SumTotalDuration(Descendants(l))

\* the Location's own TotalDuration counted along with its children's
TotalChildDurationWithOwn(l) == locs[l].TotalDuration + SumTotalDuration(ChildIds(l))

\* Location.TotalChildDuration: the TotalDuration of the immediate children
TotalChildDuration(l) == SumTotalDuration(ChildIds(l))

\* time.Duration(float64(d) / float64(n)): the quotient truncated toward zero
PerCallDuration(d, n) == IF d >= 0 THEN d \div n ELSE -((-d) \div n)

\* formatDetails: the key:value pairs in sort.Strings order of the keys
RECURSIVE DetailPairs(_, _)
DetailPairs(l, keys) ==
    IF keys = <<>> THEN <<>>
    ELSE <<[key |-> Head(keys), value |-> locs[l].Details[Head(keys)]]>>
         \o DetailPairs(l, Tail(keys))

StrNewline == <<10>>               \* "\n"

\* strings.Contains(s, "\n")
ContainsNewline(s) == \E i \in 1..Len(s) : s[i] = 10

\* strings.TrimRight(s, "\n")
RECURSIVE TrimRightNewlines(_)
TrimRightNewlines(s) ==
    IF s # <<>> /\ s[Len(s)] = 10 THEN TrimRightNewlines(SubSeq(s, 1, Len(s) - 1)) ELSE s

\* strings.Split(s, "\n"): the pieces between the line breaks
RECURSIVE SplitLines(_)
SplitLines(s) ==
    IF ~ContainsNewline(s) THEN <<s>>
    ELSE LET i == CHOOSE j \in 1..Len(s) : s[j] = 10 /\ \A k \in 1..(j - 1) : s[k] # 10
         IN  <<SubSeq(s, 1, i - 1)>> \o SplitLines(SubSeq(s, i + 1, Len(s)))

\* strings.Repeat(" ", n)
Spaces(n) == [i \in 1..n |-> 32]

\* the details are laid out inline whatever the values hold
NeverNewlines(pairs) == FALSE

\* anyNewlines: some formatted value holds a line break
AnyNewlines(pairs) == \E i \in 1..Len(pairs) : ContainsNewline(pairs[i].value)

\* " (k:v, k:v)"
RECURSIVE InlineDetails(_, _)
InlineDetails(pairs, i) ==
    IF i > Len(pairs) THEN <<>>
    ELSE (IF i > 1 THEN <<44, 32>> ELSE <<>>)
         \o pairs[i].key \o <<58>> \o pairs[i].value
         \o InlineDetails(pairs, i + 1)

\* the block of one detail: the key and the first line after an indent of
\* baseIndent = 4, the other lines under the first
RECURSIVE BlockLines(_, _, _, _)
BlockLines(prefix, key, lines, i) ==
    IF i > Len(lines) THEN <<>>
    ELSE StrNewline \o prefix
         \o (IF i = 1 THEN Spaces(4) \o key \o <<58>> \o lines[i]
             ELSE Spaces(Len(key) + 1 + 4) \o lines[i])
         \o BlockLines(prefix, key, lines, i + 1)

RECURSIVE BlockDetails(_, _, _)
BlockDetails(prefix, pairs, i) ==
    IF i > Len(pairs) THEN <<>>
    ELSE BlockLines(prefix, pairs[i].key, SplitLines(TrimRightNewlines(pairs[i].value)), 1)
         \o BlockDetails(prefix, pairs, i + 1)

\* l.formatDetails(prefix); the values are strings, which %+v prints as
\* they are
formatDetails(l, prefix) ==
    LET pairs == DetailPairs(l, SortStrings(DOMAIN locs[l].Details))
    IN  IF DOMAIN locs[l].Details = {} THEN StrEmpty
        ELSE IF ~AnyNewlines(pairs) THEN <<32, 40>> \o InlineDetails(pairs, 1) \o <<41>>
        ELSE BlockDetails(prefix, pairs, 1)

\* child durations subtracted whether or not the Location is Async
ExcludesChildrenOfAsync(l, options) == options.ExcludeChildren

\* if options.ExcludeChildren && !l.Async
ExcludesChildren(l, options) == options.ExcludeChildren /\ ~locs[l].Async

\* the test of ExitCount made first
CountsNoteCallsFirst(l) ==
    LET L == locs[l] IN
    IF L.ExitCount > 1 THEN <<"calls", L.EntryCount>>
    ELSE IF L.EntryCount # L.ExitCount
         THEN <<"entries", L.EntryCount, "exits", L.ExitCount>>
    ELSE <<>>

\* what follows the duration on the line of a started Location:
\* " entries: %d exits: %d" or " calls: %d" or nothing
CountsNote(l) ==
    LET L == locs[l] IN
    IF L.EntryCount # L.ExitCount
    THEN <<"entries", L.EntryCount, "exits", L.ExitCount>>
    ELSE IF L.ExitCount > 1 THEN <<"calls", L.EntryCount>>
    ELSE <<>>

\* the per-call duration written only inside the "calls" branch
PerCallNoteIfBalanced(l, reportDuration) ==
    LET L == locs[l] IN
    IF L.EntryCount = L.ExitCount /\ L.ExitCount > 1
    THEN <<PerCallDuration(reportDuration, L.ExitCount)>>
    ELSE <<>>

\* " (%s/call)": if l.ExitCount > 1, after the counts
PerCallNote(l, reportDuration) ==
    IF locs[l].ExitCount > 1
    THEN <<PerCallDuration(reportDuration, locs[l].ExitCount)>>
    ELSE <<>>

\* One line of the report of a named Location, as the pieces written to the
\* builder: prefix, path, effective name, then (only if EntryCount > 0) the
\* duration handed to the formatter, the counts and the per-call duration,
\* then the details.
\* no test of the name: every Location is given a line and a key
NeverUnnamed(l) == FALSE

\* `if l.Name == ""`: the Location of Root, which gets no line and no key
\* and adds nothing to the path of its children
Unnamed(l) == locs[l].Name = StrEmpty

ReportLine(l, path, options) ==
    LET L == locs[l]
        reportDuration ==
            IF ExcludesChildren(l, options)
            THEN L.TotalDuration - TotalChildDuration(l)
            ELSE L.TotalDuration
    IN  [ loc |-> l,
          prefix |-> options.Prefix,
          path |-> path,
          name |-> IF L.Async THEN <<91>> \o L.Name \o <<93>> ELSE L.Name,
          duration |-> IF L.EntryCount > 0 THEN <<reportDuration>> ELSE <<>>,
          counts |-> IF L.EntryCount > 0 THEN CountsNote(l) ELSE <<>>,
          perCall |-> IF L.EntryCount > 0 THEN PerCallNote(l, reportDuration) ELSE <<>>,
          details |-> formatDetails(l, options.Prefix) ]

\* the path extended by the name in compact mode as well
ChildPrefixAlwaysExpanded(l, path, effectiveName, options) ==
    IF Unnamed(l) THEN path ELSE path \o effectiveName \o options.Separator

\* childPrefix, the path handed to the children of l: the path of l itself
\* for the unnamed root, `path + options.Separator` in compact mode,
\* `path + effectiveName + options.Separator` otherwise
ChildPrefix(l, path, effectiveName, options) ==
    IF Unnamed(l) THEN path
    ELSE IF options.Compact THEN path \o options.Separator
    ELSE path \o effectiveName \o options.Separator

\* dumpToBuilder: the lines appended for l and, in sort.Strings order of
\* their names, for its children
RECURSIVE dumpToBuilder(_, _, _)
RECURSIVE dumpKeys(_, _, _, _)
dumpToBuilder(l, path, options) ==
    LET L == locs[l]
        line == ReportLine(l, path, options)
    IN  (IF Unnamed(l) THEN <<>> ELSE <<line>>)
        \o dumpKeys(l, SortStrings(DOMAIN L.Children),
                    ChildPrefix(l, path, line.name, options), options)

dumpKeys(l, keys, childPrefix, options) ==
    IF keys = <<>> THEN <<>>
    ELSE dumpToBuilder(locs[l].Children[Head(keys)], childPrefix, options)
         \o dumpKeys(l, Tail(keys), childPrefix, options)

\* m[key] = value
MapPut(m, key, value) ==
    [k \in DOMAIN m \cup {key} |-> IF k = key THEN value ELSE m[k]]

\* dumpToMap: the maps that writing l and its subtree into m can leave.
\* `for _, c := range l.Children` visits the children in an order Go leaves
\* unspecified, so every order is taken.  Values are
\* float64(reportDuration.Nanoseconds()) / divisor for divisor 1.
RECURSIVE dumpToMap(_, _, _, _, _)
RECURSIVE dumpRange(_, _, _, _, _)
dumpToMap(m, l, separator, path, excludeChildren) ==
    LET L == locs[l]
        reportDuration ==
            IF excludeChildren THEN L.TotalDuration - TotalChildDuration(l)
            ELSE L.TotalDuration
        key == path \o L.Name
        m1 == IF ~Unnamed(l) /\ L.EntryCount > 0 THEN MapPut(m, key, reportDuration) ELSE m
        childPrefix == IF Unnamed(l) THEN path ELSE path \o L.Name \o separator
    IN  dumpRange({m1}, ChildIds(l), separator, childPrefix, excludeChildren)

\* ms: the maps possible so far; rest: the children not visited yet
dumpRange(ms, rest, separator, childPrefix, excludeChildren) ==
    IF rest = {} THEN ms
    ELSE UNION { dumpRange(UNION {dumpToMap(m, c, separator, childPrefix, excludeChildren) : m \in ms},
                           rest \ {c}, separator, childPrefix, excludeChildren) : c \in rest }

----------------------------------------------------------------------------
(* Whole calls, made one after the other by a single caller *)

PanicOut(msg) == [kind |-> "panic", msg |-> msg]

\* getChild(name) on p as one call: the Location it returns and the heap
\* it leaves
getChild(p, name) ==
    IF name \in DOMAIN locs[p].Children THEN locs[p].Children[name] ELSE Len(locs) + 1

getChildHeap(p, name) ==
    IF name \in DOMAIN locs[p].Children THEN locs ELSE InsertChild(p, name)

\* Location.Start on l in heap h: the entry is counted, the clock read
StartedHeap(h, l) == [h EXCEPT ![l].EntryCount = AtomicAddUint32(h[l].EntryCount, 1)]

StartedSpan(l) == [NewSpan(l) EXCEPT !.startTime = now]

\* ForName(ctx, name), ctx carrying the Location p
ForName(p, name) ==
    /\ IF name = StrEmpty
       THEN /\ out' = PanicOut("non-root timings must be named")
            /\ UNCHANGED locs
       ELSE /\ locs' = getChildHeap(p, name)
            /\ out' = NoOut
    /\ UNCHANGED <<spans, gs, now, timings>>

\* Start(ctx, name) and StartAsync(ctx, name), ctx carrying the Location p
Start(p, name, async) ==
    /\ IF name = StrEmpty
       THEN /\ out' = PanicOut("non-root timings must be named")
            /\ UNCHANGED <<locs, spans>>
       ELSE LET c == getChild(p, name)
                h == getChildHeap(p, name)
            IN  /\ locs' = StartedHeap([h EXCEPT ![c].Async = async \/ h[c].Async], c)
                /\ spans' = Append(spans, StartedSpan(c))
                /\ out' = NoOut
    /\ UNCHANGED <<gs, now, timings>>

\* c.Start() on the Context of Location l
LocationStart(l) ==
    /\ locs' = StartedHeap(locs, l)
    /\ spans' = Append(spans, StartedSpan(l))
    /\ out' = NoOut
    /\ UNCHANGED <<gs, now, timings>>

\* the Complete function of span s, invoked and run to its end
Complete(s) ==
    LET l == spans[s].loc
        d == TimeSince(spans[s].startTime)
        cell == EndedCell(s)
        r == CompareAndSwapInt32(spans[cell].ended, 0, 1)
    IN  /\ IF r.swapped
           THEN /\ spans' = [[spans EXCEPT ![cell].ended = r.value]
                                EXCEPT ![s].invoked = @ + 1, ![s].ok = @ + 1, ![s].endTime = now]
                /\ locs' = [locs EXCEPT
                              ![l].ExitCount = AtomicAddUint32(locs[l].ExitCount, 1),
                              ![l].TotalDuration = AtomicAddInt64(locs[l].TotalDuration, d)]
                /\ out' = NoOut
           ELSE /\ spans' = [spans EXCEPT ![s].invoked = @ + 1, ![s].panics = @ + 1]
                /\ out' = PanicOut("timing already completed")
                /\ UNCHANGED locs
        /\ UNCHANGED <<gs, now, timings>>

\* Root(ctx): a new unnamed Location, nothing started
Root ==
    /\ locs' = Append(locs, NewLocation(StrEmpty, NoLoc))
    /\ out' = NoOut
    /\ UNCHANGED <<spans, gs, now, timings>>

\* StartRoot that goes through ForName, as Start does: with a timing
\* Context on ctx (here the one of the first Location) the new Location
\* becomes its child
StartRootBelowParent(name) ==
    /\ IF Len(locs) = 0
       THEN /\ locs' = StartedHeap(Append(locs, NewLocation(name, NoLoc)), Len(locs) + 1)
            /\ spans' = Append(spans, StartedSpan(Len(locs) + 1))
       ELSE /\ locs' = StartedHeap(getChildHeap(1, name), getChild(1, name))
            /\ spans' = Append(spans, StartedSpan(getChild(1, name)))
    /\ out' = NoOut
    /\ UNCHANGED <<gs, now, timings>>

\* StartRoot with the name test of ForName
StartRootNamedOnly(name) ==
    /\ IF name = StrEmpty
       THEN /\ out' = PanicOut("non-root timings must be named")
            /\ UNCHANGED <<locs, spans>>
       ELSE /\ locs' = StartedHeap(Append(locs, NewLocation(name, NoLoc)), Len(locs) + 1)
            /\ spans' = Append(spans, StartedSpan(Len(locs) + 1))
            /\ out' = NoOut
    /\ UNCHANGED <<gs, now, timings>>

\* StartRoot(ctx, name): a new Location without a parent, whatever Context
\* ctx carries and whatever the name, started at once
StartRoot(name) ==
    /\ locs' = StartedHeap(Append(locs, NewLocation(name, NoLoc)), Len(locs) + 1)
    /\ spans' = Append(spans, StartedSpan(Len(locs) + 1))
    /\ out' = NoOut
    /\ UNCHANGED <<gs, now, timings>>

\* a value of the wrong type under ContextTimingKey is taken for none
findParentTimingUntyped(ctx) ==
    [kind |-> "ctx", p |-> IF ctx = BadCtx THEN NoLoc ELSE ctx]

\* findParentTiming(ctx): nil (NoLoc) when ctx.Value(ContextTimingKey) is
\* nil, the Context (its Location) when the value is a *Context, a panic
\* when it is anything else
findParentTiming(ctx) ==
    IF ctx = BadCtx THEN PanicOut("invalid context timing type")
    ELSE [kind |-> "ctx", p |-> ctx]

\* the heap ForName(ctx, name) leaves and the Location of the Context it
\* returns, for a name and a ctx that pass its tests: a new root Location
\* when ctx carries no timing Context, getChild on the parent otherwise
ForNameHeap(ctx, name) ==
    LET p == findParentTiming(ctx).p
    IN  IF p = NoLoc THEN Append(locs, NewLocation(name, NoLoc)) ELSE getChildHeap(p, name)

ForNameLoc(ctx, name) ==
    LET p == findParentTiming(ctx).p
    IN  IF p = NoLoc THEN Len(locs) + 1 ELSE getChild(p, name)

\* what ForName(ctx, name) panics with, NoOut if it does not: the name is
\* tested first, then ctx, then the value ctx carries
ForNamePanic(ctx, name) ==
    IF name = StrEmpty THEN PanicOut("non-root timings must be named")
    ELSE IF ctx = NilCtx THEN PanicOut("context must be defined")
    ELSE IF findParentTiming(ctx).kind = "panic" THEN findParentTiming(ctx)
    ELSE NoOut

\* ForName(ctx, name) for any ctx
ForNameCtx(ctx, name) ==
    /\ out' = ForNamePanic(ctx, name)
    /\ locs' = IF ForNamePanic(ctx, name) = NoOut THEN ForNameHeap(ctx, name) ELSE locs
    /\ UNCHANGED <<spans, gs, now, timings>>

\* Start(ctx, name) and StartAsync(ctx, name) for any ctx
StartCtx(ctx, name, async) ==
    /\ out' = ForNamePanic(ctx, name)
    /\ IF ForNamePanic(ctx, name) = NoOut
       THEN LET c == ForNameLoc(ctx, name)
                h == ForNameHeap(ctx, name)
            IN  /\ locs' = StartedHeap([h EXCEPT ![c].Async = async \/ h[c].Async], c)
                /\ spans' = Append(spans, StartedSpan(c))
       ELSE UNCHANGED <<locs, spans>>
    /\ UNCHANGED <<gs, now, timings>>

\* l.AddDetails(key, value)
AddDetails(l, key, value) ==
    /\ locs' = [locs EXCEPT ![l].Details = MapPut(locs[l].Details, key, value)]
    /\ out' = NoOut
    /\ UNCHANGED <<spans, gs, now, timings>>

\* l.Report(options): an unset Separator becomes " | " (Compact) or " > "
Report(l, options) ==
    LET opts == IF options.Separator = StrEmpty
                THEN [options EXCEPT !.Separator = IF options.Compact THEN StrBarDefault
                                                   ELSE StrGtDefault]
                ELSE options
    IN  /\ out' = [kind |-> "Report", loc |-> l, options |-> opts,
                   lines |-> dumpToBuilder(l, StrEmpty, opts)]
        /\ UNCHANGED <<locs, spans, gs, now, timings>>

\* l.ReportMap(separator, 1, excludeChildren)
ReportMap(l, separator, excludeChildren) ==
    /\ \E m \in dumpToMap(EmptyMap, l, separator, StrEmpty, excludeChildren) :
          out' = [kind |-> "ReportMap", loc |-> l, separator |-> separator,
                  excludeChildren |-> excludeChildren, m |-> m]
    /\ UNCHANGED <<locs, spans, gs, now, timings>>

----------------------------------------------------------------------------
(* Specifications *)

\* The state after ForName(context.Background(), "a"): one un-started root
\* Location and idle goroutines.
Init ==
    /\ locs = <<NewLocation(StrA, NoLoc)>>
    /\ spans = <<>>
    /\ gs = [g \in Goroutines |-> IdleG]
    /\ now = 0
    /\ out = NoOut
    /\ timings = <<>>

RECURSIVE SumInvoked(_)
SumInvoked(n) == IF n = 0 THEN 0 ELSE spans[n].invoked + SumInvoked(n - 1)

\* Spec: goroutines start spans on the Locations and invoke the Complete
\* functions, in any interleaving.
Next ==
    \/ \E g \in Goroutines : \E l \in LocIds :
          Len(spans) + PendingSpans < MaxSpan /\ CallLocStart(g, l)
    \/ \E g \in Goroutines : StartInc(g)
    \/ \E g \in Goroutines : StartNow(g)
    \/ \E g \in Goroutines : \E s \in SpanIds :
          SumInvoked(Len(spans)) < MaxInvoke /\ CallComplete(g, s)
    \/ \E g \in Goroutines : CompleteCAS(g)
    \/ \E g \in Goroutines : CompleteAddExit(g)
    \/ \E g \in Goroutines : CompleteAddDur(g)
    \/ \E g \in Goroutines : Recover(g)
    \/ Tick

Spec == Init /\ [][Next]_vars

\* SpecTree: goroutines look names up under the Locations of one tree
\* (ForName, and Start which calls it), in any interleaving.
NextTree ==
    \/ \E g \in Goroutines, name \in Names, op \in {"ForName", "Start"} :
          \E ctx \in LocIds :
             /\ Len(locs) + PendingLocs < TreeMaxLoc
             /\ op = "ForName" \/ Len(spans) + PendingSpans < TreeMaxSpan
             /\ CallForName(g, ctx, name, op)
    \/ \E g \in Goroutines : GetChildLookup(g)
    \/ \E g \in Goroutines : GetChildInsert(g)
    \/ \E g \in Goroutines : GetChildUnlock(g)
    \/ \E g \in Goroutines : StartInc(g)
    \/ \E g \in Goroutines : StartNow(g)

SpecTree == Init /\ [][NextTree]_vars

\* the options the caller passes to Report
ReportOptions ==
    [Prefix : {StrEmpty}, Separator : {StrEmpty}, ExcludeChildren : BOOLEAN, Compact : BOOLEAN]

DetailKeys == {StrA}
DetailValues == {StrA}

RECURSIVE SumDetails(_)
SumDetails(n) == IF n = 0 THEN 0 ELSE Cardinality(DOMAIN locs[n].Details) + SumDetails(n - 1)

Roots == {l \in LocIds : locs[l].parent = NoLoc}

\* SpecSeq: a single caller builds a tree, starts and completes spans, adds
\* details and asks for reports, one whole call after the other.
NextSeq ==
    \/ \E p \in LocIds, name \in ArgNames :
          /\ Len(locs) < SeqMaxLoc
          /\ ForName(p, name)
    \/ \E p \in LocIds, name \in Names, async \in BOOLEAN :
          /\ Len(locs) < SeqMaxLoc /\ Len(spans) < SeqMaxSpan
          /\ Start(p, name, async)
    \/ \E l \in LocIds : Len(spans) < SeqMaxSpan /\ LocationStart(l)
    \/ \E s \in SpanIds : SumInvoked(Len(spans)) < SeqMaxInvoke /\ Complete(s)
    \/ \E l \in LocIds, key \in DetailKeys, value \in DetailValues :
          SumDetails(Len(locs)) < SeqMaxDetails /\ AddDetails(l, key, value)
    \/ \E l \in Roots, options \in ReportOptions : Report(l, options)
    \/ \E l \in Roots, excludeChildren \in BOOLEAN : ReportMap(l, StrGt, excludeChildren)
    \/ Tick

SpecSeq == Init /\ [][NextSeq]_vars

\* the heaps that n - 1 getChild insertions below a root named "a" build
RECURSIVE Heaps(_)
Heaps(n) ==
    IF n = 1 THEN {<<NewLocation(StrA, NoLoc)>>}
    ELSE UNION {{InsertChildIn(h, p, name) : name \in Names \ DOMAIN h[p].Children} :
                    h \in Heaps(n - 1), p \in 1..(n - 1)}

\* what the counters of one Location can be once everything that was timed
\* has completed: every entry has its exit, a duration is only added with
\* an exit, and Async is only set by StartAsync, which starts the Location
Counts ==
    {c \in [EntryCount : 0..RepMaxEntry, ExitCount : 0..RepMaxEntry,
            TotalDuration : 0..RepMaxDuration, Async : BOOLEAN] :
        /\ c.ExitCount = c.EntryCount
        /\ c.ExitCount = 0 => c.TotalDuration = 0
        /\ c.Async => c.EntryCount > 0}

WithCounts(h, f) ==
    [i \in 1..Len(h) |->
        [h[i] EXCEPT !.EntryCount = f[i].EntryCount, !.ExitCount = f[i].ExitCount,
                     !.TotalDuration = f[i].TotalDuration, !.Async = f[i].Async]]

\* A timing tree at report time: built by getChild, every span completed,
\* and the caller holds no Complete function any more.
InitReport ==
    /\ locs \in UNION {{WithCounts(h, f) : h \in Heaps(n), f \in [1..n -> Counts]} :
                          n \in 1..RepMaxLoc}
    /\ spans = <<>>
    /\ gs = [g \in Goroutines |-> IdleG]
    /\ now = RepMaxDuration
    /\ out = NoOut
    /\ timings = <<>>

\* SpecReport: the caller asks for reports of a finished tree.
NextReport ==
    \/ \E l \in Roots, options \in ReportOptions : Report(l, options)
    \/ \E l \in Roots, excludeChildren \in BOOLEAN : ReportMap(l, StrGt, excludeChildren)

SpecReport == InitReport /\ [][NextReport]_vars

\* what the counters of one Location can be while spans may still be in
\* flight: exits never exceed entries, a duration is only added with an
\* exit, and Async is only set by StartAsync, which starts the Location
OpenCounts ==
    {c \in [EntryCount : 0..CntMaxEntry, ExitCount : 0..CntMaxEntry,
            TotalDuration : 0..CntMaxDuration, Async : BOOLEAN] :
        /\ c.ExitCount <= c.EntryCount
        /\ c.ExitCount = 0 => c.TotalDuration = 0
        /\ c.Async => c.EntryCount > 0}

\* A timing tree reported while it is in use: Locations started several
\* times, some spans not completed yet.
InitCounts ==
    /\ locs \in UNION {{WithCounts(h, f) : h \in Heaps(n), f \in [1..n -> OpenCounts]} :
                          n \in 1..CntMaxLoc}
    /\ spans = <<>>
    /\ gs = [g \in Goroutines |-> IdleG]
    /\ now = CntMaxDuration
    /\ out = NoOut
    /\ timings = <<>>

\* SpecCounts: the caller asks for reports of a tree in use.
SpecCounts == InitCounts /\ [][NextReport]_vars

\* No timing Context yet: the caller has a context.Context without one.
InitRoot ==
    /\ locs = <<>>
    /\ spans = <<>>
    /\ gs = [g \in Goroutines |-> IdleG]
    /\ now = 0
    /\ out = NoOut
    /\ timings = <<>>

\* SpecRoot: a single caller makes its roots with Root and StartRoot, names
\* and starts spans below them with any name, the empty one included, and
\* asks for reports.
NextRoot ==
    \/ Len(locs) < RootMaxLoc /\ Root
    \/ \E name \in ArgNames :
          /\ Len(locs) < RootMaxLoc /\ Len(spans) < RootMaxSpan
          /\ StartRoot(name)
    \/ \E p \in LocIds, name \in ArgNames :
          /\ Len(locs) < RootMaxLoc
          /\ ForName(p, name)
    \/ \E p \in LocIds, name \in ArgNames, async \in BOOLEAN :
          /\ Len(locs) < RootMaxLoc /\ Len(spans) < RootMaxSpan
          /\ Start(p, name, async)
    \/ \E s \in SpanIds : spans[s].invoked = 0 /\ Complete(s)
    \/ \E l \in Roots, options \in ReportOptions : Report(l, options)
    \/ \E l \in Roots, excludeChildren \in BOOLEAN : ReportMap(l, StrGt, excludeChildren)
    \/ Tick

SpecRoot == InitRoot /\ [][NextRoot]_vars

\* what a caller can pass as ctx: nil, a context without a timing Context,
\* one with a value of another type under the key, one carrying a Context
CtxValues == {NilCtx, NoCtx, BadCtx} \cup LocIds

\* SpecCtx: a single caller names and starts spans with any ctx and any
\* name, and completes them.
NextCtx ==
    \/ \E ctx \in CtxValues, name \in ArgNames :
          /\ Len(locs) < CtxMaxLoc
          /\ ForNameCtx(ctx, name)
    \/ \E ctx \in CtxValues, name \in ArgNames, async \in BOOLEAN :
          /\ Len(locs) < CtxMaxLoc /\ Len(spans) < CtxMaxSpan
          /\ StartCtx(ctx, name, async)
    \/ \E s \in SpanIds : spans[s].invoked = 0 /\ Complete(s)
    \/ Tick

SpecCtx == InitRoot /\ [][NextCtx]_vars

\* SpecMultiRoot: a single caller with a tree in place makes further roots
\* with StartRoot and names, starts and completes spans below any of them.
NextMultiRoot ==
    \/ \E name \in Names :
          /\ Len(locs) < MulMaxLoc /\ Len(spans) < MulMaxSpan
          /\ StartRoot(name)
    \/ \E p \in LocIds, name \in Names :
          /\ Len(locs) < MulMaxLoc
          /\ ForName(p, name)
    \/ \E p \in LocIds, name \in Names, async \in BOOLEAN :
          /\ Len(locs) < MulMaxLoc /\ Len(spans) < MulMaxSpan
          /\ Start(p, name, async)
    \/ \E s \in SpanIds : spans[s].invoked = 0 /\ Complete(s)

SpecMultiRoot == Init /\ [][NextMultiRoot]_vars

----------------------------------------------------------------------------
(* timing.go and global.go: the Timing object, a cursor into the tree *)

TimingIds == 1..Len(timings)

\* &Location{Name: name} of timing.go; parent is the model's back pointer
NewSubLocation(name, parent) ==
    [ Name |-> name,
      Children |-> EmptyMap,
      EntryCount |-> 0,
      ExitCount |-> 0,
      TotalDuration |-> 0,
      SubThread |-> FALSE,
      parent |-> parent ]

\* NewTiming(rootName): the root Location and a Timing standing on it
NewTiming(rootName) == [root |-> Len(locs) + 1, current |-> Len(locs) + 1]

\* l.getSubLocation(name): the child it returns and the heap it leaves
getSubLocation(l, name) ==
    IF name \in DOMAIN locs[l].Children THEN locs[l].Children[name] ELSE Len(locs) + 1

getSubLocationHeap(l, name) ==
    IF name \in DOMAIN locs[l].Children THEN locs
    ELSE Append([locs EXCEPT ![l].Children = (name :> (Len(locs) + 1)) @@ locs[l].Children],
                NewSubLocation(name, l))

\* a ctx without a Timing is given the first Timing there is
GetTimingOrFirst(ctx) ==
    IF ctx = BadCtx THEN PanicOut("invalid timing context type")
    ELSE IF ctx = NoCtx /\ Len(timings) = 0 THEN PanicOut("no timing context present")
    ELSE [kind |-> "timing", t |-> IF ctx = NoCtx THEN 1 ELSE ctx]

\* GetTiming(ctx): the Timing under timingContextKey; a panic when there is
\* no value or a value of another type
GetTiming(ctx) ==
    IF ctx = NoCtx THEN PanicOut("no timing context present")
    ELSE IF ctx = BadCtx THEN PanicOut("invalid timing context type")
    ELSE [kind |-> "timing", t |-> ctx]

\* FromContext(ctx) of global.go: the same lookup
FromContext(ctx) ==
    IF ctx = NoCtx THEN PanicOut("no timing context present")
    ELSE IF ctx = BadCtx THEN PanicOut("invalid timing context type")
    ELSE [kind |-> "timing", t |-> ctx]

\* ContextWithTiming(ctx): a new Timing on a new unnamed root
ContextWithTiming ==
    /\ locs' = Append(locs, NewSubLocation(StrEmpty, NoLoc))
    /\ timings' = Append(timings, NewTiming(StrEmpty))
    /\ out' = NoOut
    /\ UNCHANGED <<spans, gs, now>>

\* t.Start(name): the cursor moves to the child, the entry is counted;
\* the Completed function keeps l, parent, startTime and t
TimingStart(t, name) ==
    /\ IF Len(name) = 0
       THEN /\ out' = PanicOut("timing name much be a non-zero length string")
            /\ UNCHANGED <<locs, spans, timings>>
       ELSE LET parent == timings[t].current
                l == getSubLocation(parent, name)
                h == getSubLocationHeap(parent, name)
            IN  /\ locs' = [h EXCEPT ![l].EntryCount = @ + 1]
                /\ timings' = [timings EXCEPT ![t].current = l]
                /\ spans' = Append(spans, [loc |-> l, parent |-> parent, t |-> t,
                                           startTime |-> now, invoked |-> 0])
                /\ out' = NoOut
    /\ UNCHANGED <<gs, now>>

\* the Completed function of span s
TimingCompleted(s) ==
    LET l == spans[s].loc
        d == TimeSince(spans[s].startTime)
    IN  /\ locs' = [locs EXCEPT ![l].ExitCount = @ + 1, ![l].TotalDuration = @ + d]
        /\ timings' = [timings EXCEPT ![spans[s].t].current = spans[s].parent]
        /\ spans' = [spans EXCEPT ![s].invoked = @ + 1]
        /\ out' = NoOut
        /\ UNCHANGED <<gs, now>>

\* the child is marked before EntryCount is looked at
BeginSubThreadMarkFirst(t, name) ==
    LET childLoc == getSubLocation(timings[t].current, name)
        h == getSubLocationHeap(timings[t].current, name)
    IN  /\ locs' = [h EXCEPT ![childLoc].SubThread = TRUE]
        /\ IF h[childLoc].EntryCount > 0
           THEN /\ out' = PanicOut("sub-threads require a new timing location")
                /\ UNCHANGED timings
           ELSE /\ timings' = Append(timings, [root |-> childLoc, current |-> childLoc])
                /\ out' = NoOut
        /\ UNCHANGED <<spans, gs, now>>

\* t.BeginSubThread(name) and t.BeginSubThreadContext(ctx, name): the child
\* of the current Location, made if it is not there; a panic if it has been
\* entered; else it is marked and a new Timing stands on it
BeginSubThread(t, name) ==
    LET childLoc == getSubLocation(timings[t].current, name)
        h == getSubLocationHeap(timings[t].current, name)
    IN  /\ IF h[childLoc].EntryCount > 0
           THEN /\ out' = PanicOut("sub-threads require a new timing location")
                /\ locs' = h
                /\ UNCHANGED timings
           ELSE /\ locs' = [h EXCEPT ![childLoc].SubThread = TRUE]
                /\ timings' = Append(timings, [root |-> childLoc, current |-> childLoc])
                /\ out' = NoOut
        /\ UNCHANGED <<spans, gs, now>>

\* the lookup has panicked: nothing else happens
LookupPanics(r) ==
    /\ out' = r
    /\ UNCHANGED <<locs, spans, gs, now, timings>>

\* Start(ctx, name) of global.go
GlobalStart(ctx, name) ==
    IF FromContext(ctx).kind = "panic" THEN LookupPanics(FromContext(ctx))
    ELSE TimingStart(FromContext(ctx).t, name)

\* BeginSubThread(ctx, name) of timing.go
GlobalBeginSubThread(ctx, name) ==
    IF GetTiming(ctx).kind = "panic" THEN LookupPanics(GetTiming(ctx))
    ELSE BeginSubThread(GetTiming(ctx).t, name)

\* Details(ctx) of timing.go: the children of the root of the Timing
GlobalDetails(ctx) ==
    IF GetTiming(ctx).kind = "panic" THEN LookupPanics(GetTiming(ctx))
    ELSE /\ out' = [kind |-> "Details", m |-> locs[timings[GetTiming(ctx).t].root].Children]
         /\ UNCHANGED <<locs, spans, gs, now, timings>>

\* what a caller can pass as ctx: a context without a Timing, one with a
\* value of another type under the key, one carrying a Timing
TimingCtxValues == {NoCtx, BadCtx} \cup TimingIds

\* SpecTiming: a single caller of the Timing API.
NextTiming ==
    \/ Len(locs) < TimMaxLoc /\ Len(timings) < TimMaxTiming /\ ContextWithTiming
    \/ \E ctx \in TimingCtxValues, name \in {StrA, StrEmpty} :
          /\ Len(locs) < TimMaxLoc /\ Len(spans) < TimMaxSpan
          /\ GlobalStart(ctx, name)
    \/ \E ctx \in TimingCtxValues, name \in {StrA} :
          /\ Len(locs) < TimMaxLoc /\ Len(timings) < TimMaxTiming
          /\ GlobalBeginSubThread(ctx, name)
    \/ \E ctx \in TimingCtxValues : GlobalDetails(ctx)
    \/ \E s \in SpanIds : spans[s].invoked = 0 /\ TimingCompleted(s)
    \/ Tick

SpecTiming == InitRoot /\ [][NextTiming]_vars

----------------------------------------------------------------------------
(* A report racing with the calls that write the maps *)

\* the process is alive: a fatal error of the runtime ends all goroutines
Running == out.kind # "fatal"

FatalOut(msg) == [kind |-> "fatal", msg |-> msg]

\* goroutines inside the map assignment of getChild, the Location not
\* allocated in the model's heap yet
Assigning == Cardinality({g \in Goroutines : gs[g].pc = "assign"})

\* l.Children[name] = cl has begun: the runtime's map is being written
GetChildAssign(g) ==
    /\ gs[g].pc = "insert"
    /\ gs' = SetG(g, [gs[g] EXCEPT !.pc = "assign"])
    /\ UNCHANGED <<locs, spans, now, out, timings>>

\* the assignment and the append to CallOrder are done
GetChildAssigned(g) ==
    /\ gs[g].pc = "assign"
    /\ locs' = InsertChild(gs[g].parent, gs[g].name)
    /\ gs' = SetG(g, [gs[g] EXCEPT !.pc = "unlock", !.loc = Len(locs) + 1])
    /\ UNCHANGED <<spans, now, out, timings>>

\* l.AddDetails(key, value) is called
CallAddDetails(g, l, key, value) ==
    /\ Free(g)
    /\ gs' = SetG(g, [IdleG EXCEPT !.pc = "details", !.op = "AddDetails",
                        !.loc = l, !.name = key, !.value = value])
    /\ UNCHANGED <<locs, spans, now, out, timings>>

\* l.mu.Lock(); `if l.Details == nil` (a map never written is nil: nothing
\* is ever deleted); l.Details[key] = value has begun
AddDetailsLock(g) ==
    /\ gs[g].pc = "details"
    /\ MutexFree(gs[g].loc)
    /\ locs' = [locs EXCEPT ![gs[g].loc].mu = g]
    /\ gs' = SetG(g, [gs[g] EXCEPT !.pc = "assignDetail",
                        !.wasNil = locs[gs[g].loc].Details = EmptyMap])
    /\ UNCHANGED <<spans, now, out, timings>>

\* a new map on every call
AddDetailsFresh(g) ==
    /\ gs[g].pc = "assignDetail"
    /\ locs' = [locs EXCEPT ![gs[g].loc].Details = MapPut(EmptyMap, gs[g].name, gs[g].value)]
    /\ gs' = SetG(g, [gs[g] EXCEPT !.pc = "unlockDetail"])
    /\ UNCHANGED <<spans, now, out, timings>>

\* l.Details = map[string]anything{} if the map was nil; the assignment
\* is done
AddDetailsAssigned(g) ==
    /\ gs[g].pc = "assignDetail"
    /\ locs' = [locs EXCEPT ![gs[g].loc].Details =
                    MapPut(IF gs[g].wasNil THEN EmptyMap ELSE locs[gs[g].loc].Details,
                           gs[g].name, gs[g].value)]
    /\ gs' = SetG(g, [gs[g] EXCEPT !.pc = "unlockDetail"])
    /\ UNCHANGED <<spans, now, out, timings>>

\* deferred l.mu.Unlock()
AddDetailsUnlock(g) ==
    /\ gs[g].pc = "unlockDetail"
    /\ locs' = [locs EXCEPT ![gs[g].loc].mu = NoOwner]
    /\ gs' = Return(g)
    /\ UNCHANGED <<spans, now, out, timings>>

\* the options String passes to dumpToBuilder
StringOptions ==
    [Prefix |-> StrEmpty, Separator |-> StrGtDefault, ExcludeChildren |-> FALSE, Compact |-> FALSE]

\* l.String() is called: dumpToBuilder starts to range over the maps of the
\* tree of l.  It takes no mutex (ExcludeChildren is off, so that
\* TotalChildDuration, which does lock, is not called).
CallString(g, l) ==
    /\ Free(g)
    /\ gs' = SetG(g, [IdleG EXCEPT !.pc = "range", !.op = "String", !.loc = l])
    /\ UNCHANGED <<locs, spans, now, out, timings>>

\* the goroutines writing a map of the tree of l right now
WritersIn(l) ==
    {h \in Goroutines :
        \/ gs[h].pc = "assign" /\ gs[h].parent \in {l} \cup Descendants(l)
        \/ gs[h].pc = "assignDetail" /\ gs[h].loc \in {l} \cup Descendants(l)}

\* the ranges over l.Children and l.Details and the lookups, to the end of
\* the report.  Reading a map another goroutine is writing is a data race:
\* the runtime may see the write in progress and end the process with a
\* fatal error, or the read may go through with the map as it was.
StringRange(g) ==
    LET l == gs[g].loc
    IN  /\ gs[g].pc = "range"
        /\ \/ /\ out' = [kind |-> "Report", loc |-> l, options |-> StringOptions,
                         lines |-> dumpToBuilder(l, StrEmpty, StringOptions)]
              /\ gs' = Return(g)
           \/ /\ WritersIn(l) # {}
              /\ out' = FatalOut("concurrent map iteration and map write")
              /\ gs' = SetG(g, [gs[g] EXCEPT !.pc = "fatal"])
        /\ UNCHANGED <<locs, spans, now, timings>>

\* SpecRace: goroutines name children, add details and print the tree.
NextRace ==
    \/ \E g \in Goroutines, ctx \in LocIds, name \in Names :
          /\ Running
          /\ Len(locs) + PendingLocs + Assigning < RaceMaxLoc
          /\ CallForName(g, ctx, name, "ForName")
    \/ \E g \in Goroutines : Running /\ GetChildLookup(g)
    \/ \E g \in Goroutines : Running /\ GetChildAssign(g)
    \/ \E g \in Goroutines : Running /\ GetChildAssigned(g)
    \/ \E g \in Goroutines : Running /\ GetChildUnlock(g)
    \/ \E g \in Goroutines, l \in LocIds, key \in DetailKeys, value \in DetailValues :
          /\ Running
          /\ key \notin DOMAIN locs[l].Details
          /\ CallAddDetails(g, l, key, value)
    \/ \E g \in Goroutines : Running /\ AddDetailsLock(g)
    \/ \E g \in Goroutines : Running /\ AddDetailsAssigned(g)
    \/ \E g \in Goroutines : Running /\ AddDetailsUnlock(g)
    \/ \E g \in Goroutines, l \in Roots : Running /\ CallString(g, l)
    \/ \E g \in Goroutines : Running /\ StringRange(g)

SpecRace == Init /\ [][NextRace]_vars

\* the keys and values of the concurrent callers of AddDetails
UpsertKeys == {StrA, StrGt}
UpsertValues == {StrA, StrGt}

\* SpecDetails: goroutines call AddDetails on one Location, again and again.
NextDetails ==
    \/ \E g \in Goroutines, key \in UpsertKeys, value \in UpsertValues :
          CallAddDetails(g, 1, key, value)
    \/ \E g \in Goroutines : AddDetailsLock(g)
    \/ \E g \in Goroutines : AddDetailsAssigned(g)
    \/ \E g \in Goroutines : AddDetailsUnlock(g)

SpecDetails == Init /\ [][NextDetails]_vars

\* detail keys, values with and without line breaks, prefixes
FormatKeys == {StrA, StrGt}
FormatValues == {StrA, <<97, 10>>, <<97, 10, 97>>, <<10>>, <<97, 10, 10, 97>>}
StrStar == <<42>>                  \* "*"
FormatOptions ==
    [Prefix : {StrEmpty, StrStar}, Separator : {StrEmpty}, ExcludeChildren : {FALSE},
     Compact : BOOLEAN]

\* the maps AddDetails calls with these keys and values build
DetailMaps == UNION {[ks -> FormatValues] : ks \in SUBSET FormatKeys}

\* A Location started and completed once, with details added.
InitFormat ==
    /\ locs \in {<<[NewLocation(StrA, NoLoc) EXCEPT !.EntryCount = 1, !.ExitCount = 1,
                                                     !.Details = m]>> : m \in DetailMaps}
    /\ spans = <<>>
    /\ gs = [g \in Goroutines |-> IdleG]
    /\ now = 0
    /\ out = NoOut
    /\ timings = <<>>

\* SpecFormat: the caller asks for reports of a Location with details.
NextFormat == \E options \in FormatOptions : Report(1, options)

SpecFormat == InitFormat /\ [][NextFormat]_vars

----------------------------------------------------------------------------
(* Properties: Start and Complete on one Location *)

SpansAt(l) == {s \in SpanIds : spans[s].loc = l}

\* goroutines inside Location.Start of l / inside a Complete function of l
InStart(l) == {g \in Goroutines : gs[g].loc = l /\ gs[g].pc \in {"inc", "startTime"}}
Completing(l) == {g \in Goroutines : gs[g].loc = l /\ gs[g].pc \in {"cas", "addExit", "addDur"}}

Quiet(l) == InStart(l) = {} /\ Completing(l) = {}

\* time from the Start call to the successful invocation of Complete
Elapsed(s) == spans[s].endTime - spans[s].startTime

RECURSIVE SumElapsed(_)
SumElapsed(S) ==
    IF S = {} THEN 0
    ELSE LET s == CHOOSE x \in S : TRUE IN Elapsed(s) + SumElapsed(S \ {s})

Invoked(l) == {s \in SpansAt(l) : spans[s].invoked >= 1}

\* spans whose successful Complete has returned
Completed(l) ==
    {s \in SpansAt(l) : /\ spans[s].ok = 1
                        /\ ~\E g \in Goroutines : /\ gs[g].span = s
                                                   /\ gs[g].pc \in {"addExit", "addDur"}}

\* C1: whatever the interleaving of Start calls and Complete invocations on one
\* Location, EntryCount is the number of Start calls that have counted their
\* entry, and once the calls have returned EntryCount is the number of Start
\* calls made and ExitCount the number of Complete functions invoked.
C1_CountsEqualCalls ==
    \A l \in LocIds :
        /\ locs[l].EntryCount =
              Cardinality(SpansAt(l))
        /\ Quiet(l) => locs[l].ExitCount = Cardinality(Invoked(l))

\* two Start calls and two Complete invocations ran on one Location, two of
\* them at the same time, and all have returned
C1_Witness ==
    \E l \in LocIds :
        /\ Quiet(l)
        /\ locs[l].EntryCount = 2 /\ locs[l].ExitCount = 2
        /\ \E s \in SpansAt(l), x \in SpansAt(l) :
              s # x /\ spans[s].startTime = spans[x].startTime

\* C2: TotalDuration is the sum of the elapsed times of exactly the spans
\* whose Complete has returned; spans in flight contribute nothing.
C2_TotalIsSumOfCompleted ==
    \A l \in LocIds : locs[l].TotalDuration = SumElapsed(Completed(l))

\* one span of a Location completed after one tick, another still in flight
C2_Witness ==
    \E l \in LocIds : \E s \in SpansAt(l), x \in SpansAt(l) :
        /\ s \in Completed(l) /\ Elapsed(s) = 1
        /\ spans[x].startTime >= 0 /\ spans[x].invoked = 0
        /\ locs[l].TotalDuration = 1

\* C3: a Complete function invoked by several goroutines at the same time
\* succeeds for exactly one of them and panics for every other one; the exit
\* is counted once and the elapsed time added once.
C3_ConcurrentCompleteOnce ==
    \A s \in SpanIds :
        LET l == spans[s].loc IN
        /\ spans[s].ok <= 1
        /\ (spans[s].raced /\ Completing(l) = {}) =>
              /\ spans[s].ok = 1
              /\ spans[s].panics = spans[s].invoked - 1
              /\ locs[l].ExitCount = Cardinality({x \in SpansAt(l) : spans[x].ok = 1})
              /\ locs[l].TotalDuration = SumElapsed({x \in SpansAt(l) : spans[x].ok = 1})

\* two goroutines were inside the same Complete function together; one has
\* returned and the other has panicked
C3_Witness ==
    \E s \in SpanIds : \E g \in Goroutines :
        /\ spans[s].raced /\ spans[s].invoked = 2 /\ Completing(spans[s].loc) = {}
        /\ gs[g].pc = "panicked" /\ gs[g].span = s
        /\ locs[spans[s].loc].ExitCount = 1

\* the counters and the duration of every Location
Counters == [l \in LocIds |-> <<locs[l].EntryCount, locs[l].ExitCount, locs[l].TotalDuration>>]

\* C4: invoking a Complete function that has already succeeded panics, and
\* no step of that call changes EntryCount, ExitCount or TotalDuration.
C4_DoubleCompletePanics ==
    [][\A g \in Goroutines :
          /\ (gs[g].pc = "idle" /\ gs'[g].pc = "cas") => Counters' = Counters
          /\ (gs[g].pc = "cas" /\ spans[gs[g].span].ok = 1 /\ gs'[g] # gs[g]) =>
                /\ gs'[g].pc = "panicked"
                /\ gs'[g].msg = "timing already completed"
                /\ Counters' = Counters]_vars

\* a Complete function was invoked again, alone and after its successful
\* invocation, and panicked
C4_Witness ==
    \E s \in SpanIds : \E g \in Goroutines :
        /\ spans[s].ok = 1 /\ spans[s].panics = 1 /\ ~spans[s].raced
        /\ gs[g].pc = "panicked" /\ gs[g].span = s
        /\ gs[g].tInv > spans[s].endTime
        /\ locs[spans[s].loc].ExitCount = 1

\* C6: EntryCount >= ExitCount in every reachable state of every Location.
C6_EntryAtLeastExit == \A l \in LocIds : locs[l].EntryCount >= locs[l].ExitCount

\* a Location with one span completed, completed a second time, and one in flight
C6_Witness ==
    \E l \in LocIds :
        /\ locs[l].EntryCount = 2 /\ locs[l].ExitCount = 1
        /\ \E s \in SpansAt(l) : spans[s].invoked = 2 /\ Completing(l) = {}

\* C8: Start on a Location with spans in flight does not fail, and each
\* Complete function succeeds on its first invocation whatever has happened
\* to the other Complete functions of the Location.
C8_IndependentHandles ==
    /\ \A g \in Goroutines : gs[g].pc = "panicked" => gs[g].op = "Complete"
    /\ \A s \in SpanIds :
          /\ spans[s].ok <= 1
          /\ spans[s].panics > 0 => spans[s].ok = 1
          /\ (spans[s].invoked >= 1 /\ ~\E g \in Goroutines : gs[g].span = s /\ gs[g].pc = "cas")
                => spans[s].ok = 1

\* the second span of a Location was started while the first was in flight,
\* and was completed before the first
C8_Witness ==
    \E s \in SpanIds, x \in SpanIds :
        /\ s < x /\ spans[s].loc = spans[x].loc
        /\ spans[s].ok = 1 /\ spans[x].ok = 1
        /\ spans[x].endTime < spans[s].endTime
        /\ Quiet(spans[s].loc)

----------------------------------------------------------------------------
(* Properties: getChild *)

\* goroutines whose getChild call has produced its result
Resolved == {g \in Goroutines : gs[g].parent # NoLoc /\ gs[g].pc \in {"unlock", "inc", "startTime"}}

\* C5: every Location allocated by getChild for a (parent, name) pair is the
\* one registered in the parent's Children under that name, so at most one is
\* ever allocated per pair; every lookup, racing or not, resolves to it, and
\* the starts made through it are all counted on it.
C5_OneChildPerName ==
    /\ \A c \in LocIds :
          locs[c].parent # NoLoc =>
              /\ locs[c].Name \in DOMAIN locs[locs[c].parent].Children
              /\ locs[locs[c].parent].Children[locs[c].Name] = c
    /\ \A g \in Resolved :
          /\ gs[g].name \in DOMAIN locs[gs[g].parent].Children
          /\ locs[gs[g].parent].Children[gs[g].name] = gs[g].loc
    /\ \A c \in LocIds : locs[c].EntryCount = Cardinality({s \in SpanIds : spans[s].loc = c})

\* two goroutines called Start with the same parent and the same name while
\* the child did not exist yet; both calls resolved to one Location, which
\* has counted both starts
C5_Witness ==
    \E g \in Resolved, h \in Resolved :
        /\ g # h
        /\ gs[g].parent = gs[h].parent /\ gs[g].name = gs[h].name
        /\ gs[g].absentAtCall /\ gs[h].absentAtCall
        /\ gs[g].loc = gs[h].loc
        /\ gs[g].pc = "startTime" /\ gs[h].pc = "startTime"
        /\ locs[gs[g].loc].EntryCount = 2

----------------------------------------------------------------------------
(* Properties: TotalDuration over whole calls *)

\* C7: no call (Start, Complete, getChild through ForName and Start,
\* AddDetails, Report, ReportMap) and no passing of time decreases the
\* TotalDuration of any Location.
C7_TotalDurationNeverDecreases ==
    [][\A l \in LocIds : locs'[l].TotalDuration >= locs[l].TotalDuration]_vars

\* a span that ran for a tick has been completed and a report made afterwards
C7_Witness ==
    /\ \E l \in LocIds : locs[l].TotalDuration > 0 /\ locs[l].Details # EmptyMap
    /\ out.kind = "Report"
    /\ Len(locs) = 2

----------------------------------------------------------------------------
(* Properties: reports *)

\* the immediate children of l, read off the allocation history
ChildrenOf(l) == {c \in LocIds : locs[c].parent = l}

RECURSIVE SumOver(_, _)
SumOver(f, S) ==
    IF S = {} THEN 0
    ELSE LET x == CHOOSE y \in S : TRUE IN f[x] + SumOver(f, S \ {x})

TotalDurations == [l \in LocIds |-> locs[l].TotalDuration]

\* the duration the exclusion rule gives Location l
RuleDuration(l, excludeChildren) ==
    IF excludeChildren
    THEN locs[l].TotalDuration - SumOver(TotalDurations, ChildrenOf(l))
    ELSE locs[l].TotalDuration

LinesOf(l) == {i \in 1..Len(out.lines) : out.lines[i].loc = l}

\* C9 as stated: Report prints, for every named node that is not async, its
\* TotalDuration less that of its immediate children with ExcludeChildren,
\* its TotalDuration without; for a node without children that is its
\* TotalDuration in both modes.
C9_ExcludeChildrenEveryNode ==
    out.kind = "Report" =>
        \A l \in LocIds :
            (locs[l].Name # StrEmpty /\ ~locs[l].Async) =>
                /\ Cardinality(LinesOf(l)) = 1
                /\ \A i \in LinesOf(l) :
                      /\ out.lines[i].duration = <<RuleDuration(l, out.options.ExcludeChildren)>>
                      /\ ChildrenOf(l) = {} =>
                            out.lines[i].duration = <<locs[l].TotalDuration>>

\* C9, amended: the rule holds for every named node that is not async and
\* has been started (EntryCount > 0); a named node that was never started
\* gets its line without any duration, in both modes.
C9_ExcludeChildrenStartedNodes ==
    out.kind = "Report" =>
        \A l \in LocIds :
            (locs[l].Name # StrEmpty /\ ~locs[l].Async) =>
                /\ Cardinality(LinesOf(l)) = 1
                /\ \A i \in LinesOf(l) :
                      IF locs[l].EntryCount > 0
                      THEN /\ out.lines[i].duration =
                                 <<RuleDuration(l, out.options.ExcludeChildren)>>
                           /\ ChildrenOf(l) = {} =>
                                 out.lines[i].duration = <<locs[l].TotalDuration>>
                      ELSE out.lines[i].duration = <<>>

\* a report with ExcludeChildren of a tree in which a started node that is
\* not async has a child and a grandchild with durations, and in which
\* another node was never started
C9_Witness ==
    /\ out.kind = "Report" /\ out.options.ExcludeChildren
    /\ \E l \in LocIds, c \in LocIds, g \in LocIds :
          /\ locs[c].parent = l /\ locs[g].parent = c
          /\ ~locs[l].Async /\ locs[l].EntryCount > 0
          /\ locs[l].TotalDuration = 1 /\ locs[c].TotalDuration = 1 /\ locs[g].TotalDuration = 1
          /\ \E i \in LinesOf(l) : out.lines[i].duration = <<0>>
    /\ \E n \in LocIds : locs[n].EntryCount = 0

\* the durations a report shows, summed
ReportedSum ==
    IF out.kind = "Report"
    THEN SumOver([i \in 1..Len(out.lines) |->
                     IF out.lines[i].duration = <<>> THEN 0 ELSE out.lines[i].duration[1]],
                 1..Len(out.lines))
    ELSE SumOver(out.m, DOMAIN out.m)

ExcludingReport ==
    \/ out.kind = "Report" /\ out.options.ExcludeChildren
    \/ out.kind = "ReportMap" /\ out.excludeChildren

\* C10: for a tree with a single named root, no async node and every node
\* started, the durations reported with excludeChildren, by Report and by
\* ReportMap alike, add up to the TotalDuration of the root.
C10_ExcludedSumIsRootTotal ==
    (/\ ExcludingReport
     /\ locs[out.loc].Name # StrEmpty
     /\ \A l \in LocIds : ~locs[l].Async /\ locs[l].EntryCount > 0)
        => ReportedSum = locs[out.loc].TotalDuration

\* the report Report returns for the same Location with ExcludeChildren
\* switched
OtherModeLines ==
    dumpToBuilder(out.loc, StrEmpty,
                  [out.options EXCEPT !.ExcludeChildren = ~out.options.ExcludeChildren])

\* C11: for an Async node the duration on its line is the same with and
\* without ExcludeChildren, namely its TotalDuration, whatever the durations
\* of its children.
C11_AsyncSameInBothModes ==
    out.kind = "Report" =>
        /\ Len(OtherModeLines) = Len(out.lines)
        /\ \A i \in 1..Len(out.lines) :
              LET l == out.lines[i].loc IN
              locs[l].Async =>
                  /\ OtherModeLines[i].loc = l
                  /\ OtherModeLines[i].duration = out.lines[i].duration
                  /\ locs[l].EntryCount > 0 =>
                        out.lines[i].duration = <<locs[l].TotalDuration>>

\* a report with ExcludeChildren of a tree in which an Async node has a
\* child with a duration
C11_Witness ==
    /\ out.kind = "Report" /\ out.options.ExcludeChildren
    /\ \E i \in 1..Len(out.lines) : \E c \in LocIds :
          LET l == out.lines[i].loc IN
          /\ locs[l].Async /\ locs[c].parent = l
          /\ locs[c].TotalDuration = 1 /\ locs[l].TotalDuration = 1
          /\ out.lines[i].duration = <<1>>

\* the key the claims give Location l in a map made from Location top: the
\* names of its named ancestors up to top and its own name, joined by sep
RECURSIVE KeyPrefix(_, _, _)
KeyPrefix(l, top, sep) ==
    LET up == IF l = top THEN StrEmpty ELSE KeyPrefix(locs[l].parent, top, sep)
    IN  IF locs[l].Name = StrEmpty THEN up ELSE up \o locs[l].Name \o sep

KeyOf(l, top, sep) ==
    IF l = top THEN locs[l].Name ELSE KeyPrefix(locs[l].parent, top, sep) \o locs[l].Name

\* the named Locations that have been started
Reported == {l \in LocIds : locs[l].Name # StrEmpty /\ locs[l].EntryCount > 0}

\* no other started Location has the key of l
OwnKey(l) ==
    \A x \in Reported \ {l} : KeyOf(x, out.loc, out.separator) # KeyOf(l, out.loc, out.separator)

\* C12: in the map ReportMap returns with excludeChildren, the value of an
\* Async node is its full TotalDuration, no child time subtracted (stated
\* for the nodes that have their key to themselves).
C12_MapKeepsAsyncDuration ==
    (out.kind = "ReportMap" /\ out.excludeChildren) =>
        \A l \in Reported :
            (locs[l].Async /\ OwnKey(l)) =>
                /\ KeyOf(l, out.loc, out.separator) \in DOMAIN out.m
                /\ out.m[KeyOf(l, out.loc, out.separator)] = locs[l].TotalDuration

----------------------------------------------------------------------------
(* Properties: the counts on a report line *)

\* C13: the line of a started named node carries "entries: N exits: M"
\* exactly when EntryCount # ExitCount, and "calls: N" exactly when the
\* counts are equal and above 1; with EntryCount = ExitCount = 1 it carries
\* neither.
C13_CountsAnnotation ==
    out.kind = "Report" =>
        \A i \in 1..Len(out.lines) :
            LET l == out.lines[i].loc
                E == locs[l].EntryCount
                X == locs[l].ExitCount
                note == out.lines[i].counts
            IN  E > 0 =>
                  /\ (note = <<"entries", E, "exits", X>>) <=> (E # X)
                  /\ (note = <<"calls", E>>) <=> (E = X /\ E > 1)
                  /\ (E = 1 /\ X = 1) => note = <<>>
                  /\ note \in {<<>>, <<"entries", E, "exits", X>>, <<"calls", E>>}

\* a report of a node with three entries and two exits, shown as such
C13_Witness ==
    /\ out.kind = "Report"
    /\ \E i \in 1..Len(out.lines) :
          /\ locs[out.lines[i].loc].EntryCount = 3
          /\ locs[out.lines[i].loc].ExitCount = 2
          /\ out.lines[i].counts = <<"entries", 3, "exits", 2>>

\* q is d / n with the fraction dropped
IsQuotient(q, d, n) ==
    IF d >= 0 THEN q * n <= d /\ d < (q + 1) * n
    ELSE q * n >= d /\ d > (q - 1) * n

\* C14 as stated: the per-call average is on a line exactly when the line
\* carries "calls: N", and never on a line with the imbalance annotation.
C14_PerCallOnlyWithCalls ==
    out.kind = "Report" =>
        \A i \in 1..Len(out.lines) :
            LET ln == out.lines[i]
                l == ln.loc
            IN  locs[l].EntryCount > 0 =>
                  /\ (ln.perCall # <<>>) <=> (ln.counts = <<"calls", locs[l].EntryCount>>)
                  /\ ln.perCall # <<>> =>
                        IsQuotient(ln.perCall[1], ln.duration[1], locs[l].ExitCount)

\* C14, amended: the per-call average, the reported duration divided by
\* ExitCount, is on a line exactly when ExitCount > 1: on every line with
\* "calls: N", and on a line with "entries: N exits: M" when M > 1.
C14_PerCallWhenSeveralExits ==
    out.kind = "Report" =>
        \A i \in 1..Len(out.lines) :
            LET ln == out.lines[i]
                l == ln.loc
            IN  locs[l].EntryCount > 0 =>
                  /\ (ln.perCall # <<>>) <=> (locs[l].ExitCount > 1)
                  /\ ln.counts = <<"calls", locs[l].EntryCount>> => ln.perCall # <<>>
                  /\ ln.perCall # <<>> =>
                        /\ Len(ln.perCall) = 1
                        /\ IsQuotient(ln.perCall[1], ln.duration[1], locs[l].ExitCount)

\* a line with three entries, two exits and a duration of 3 carries the
\* imbalance annotation and a per-call average of 1
C14_Witness ==
    /\ out.kind = "Report"
    /\ \E i \in 1..Len(out.lines) :
          /\ out.lines[i].counts = <<"entries", 3, "exits", 2>>
          /\ out.lines[i].duration = <<3>>
          /\ out.lines[i].perCall = <<1>>

----------------------------------------------------------------------------
(* Properties: the entries of the map *)

\* the started named Locations of the tree ReportMap was called on
ReportedUnder(top) == Reported \cap ({top} \cup Descendants(top))

\* C15: the map ReportMap returns has exactly one entry for each started
\* named node of the tree and none for another node, each under the key
\* made of the names of its named ancestors and its own name joined by the
\* separator, and no two started nodes have the same key.
C15_OneEntryPerStartedNode ==
    out.kind = "ReportMap" =>
        /\ DOMAIN out.m = {KeyOf(l, out.loc, out.separator) : l \in ReportedUnder(out.loc)}
        /\ \A x, y \in ReportedUnder(out.loc) :
              x # y => KeyOf(x, out.loc, out.separator) # KeyOf(y, out.loc, out.separator)
        /\ Cardinality(DOMAIN out.m) = Cardinality(ReportedUnder(out.loc))

----------------------------------------------------------------------------
(* Properties: the unnamed root *)

\* C16: a Location without a name has no line in a report and no entry in
\* a map; its children are rendered with an empty path, under their own
\* name in the map, and without children its report is empty.
C16_UnnamedNeverEmitted ==
    /\ out.kind = "Report" =>
          /\ \A i \in 1..Len(out.lines) : locs[out.lines[i].loc].Name # StrEmpty
          /\ locs[out.loc].Name = StrEmpty =>
                /\ \A c \in ChildIds(out.loc) :
                      \E i \in LinesOf(c) : out.lines[i].path = StrEmpty
                /\ ChildIds(out.loc) = {} => out.lines = <<>>
    /\ out.kind = "ReportMap" =>
          /\ DOMAIN out.m \subseteq
                {KeyOf(l, out.loc, out.separator) : l \in ReportedUnder(out.loc)}
          /\ locs[out.loc].Name = StrEmpty =>
                /\ \A c \in ChildIds(out.loc) :
                      locs[c].EntryCount > 0 => locs[c].Name \in DOMAIN out.m
                /\ ChildIds(out.loc) = {} => out.m = EmptyMap

\* the report of an unnamed root with one child is the line of the child
C16_Witness ==
    /\ out.kind = "Report"
    /\ locs[out.loc].Name = StrEmpty
    /\ ChildIds(out.loc) # {}
    /\ Len(out.lines) = 1
    /\ out.lines[1].path = StrEmpty
    /\ locs[out.lines[1].loc].parent = out.loc

----------------------------------------------------------------------------
(* Properties: the empty name *)

\* a call of Start, StartAsync or ForName with the empty name
EmptyNameCall ==
    \/ \E p \in LocIds, async \in BOOLEAN : Start(p, StrEmpty, async)
    \/ \E p \in LocIds : ForName(p, StrEmpty)

----------------------------------------------------------------------------
(* Properties: the order of the children *)

\* C17: two calls of Report with the same options, or of ReportMap with
\* the same arguments, on a tree not modified in between return the same
\* result.
C17_SameReportTwice ==
    [][locs' = locs =>
         /\ (/\ out.kind = "Report" /\ out'.kind = "Report"
             /\ out'.loc = out.loc /\ out'.options = out.options)
                => out'.lines = out.lines
         /\ (/\ out.kind = "ReportMap" /\ out'.kind = "ReportMap"
             /\ out'.loc = out.loc /\ out'.separator = out.separator
             /\ out'.excludeChildren = out.excludeChildren)
                => out'.m = out.m]_vars

\* where the child named name stands in the CallOrder of p
CallOrderIndex(p, name) ==
    CHOOSE i \in 1..Len(locs[p].CallOrder) : locs[p].CallOrder[i] = name

\* C18: in a report the lines of the children of a node come in the order
\* in which the children were first created under it.
C18_ChildrenInCallOrder ==
    out.kind = "Report" =>
        \A i, j \in 1..Len(out.lines) :
            LET x == out.lines[i].loc
                y == out.lines[j].loc
            IN  (i < j /\ locs[x].parent = locs[y].parent /\ locs[x].parent # NoLoc) =>
                    CallOrderIndex(locs[x].parent, locs[x].Name)
                        < CallOrderIndex(locs[y].parent, locs[y].Name)

----------------------------------------------------------------------------
(* Properties: a report racing with writers *)

\* a goroutine ranges over the maps of a tree while another goroutine is
\* writing one of them
RacingRead == \E g \in Goroutines : gs[g].pc = "range" /\ WritersIn(gs[g].loc) # {}

\* C19: a report never reads the Children or Details map of a Location
\* while another goroutine writes it, and a report that runs beside getChild
\* or AddDetails does not crash the process.
C19_ReportNeverRacesWriters == ~RacingRead /\ out.kind # "fatal"

----------------------------------------------------------------------------
(* Properties: the ctx argument *)

\* a call of ForName, Start or StartAsync with a named span and a ctx whose
\* value under the timing key is not a Context
BadCtxCall ==
    \/ \E name \in Names : ForNameCtx(BadCtx, name)
    \/ \E name \in Names, async \in BOOLEAN : StartCtx(BadCtx, name, async)

\* C21: the lookup of the parent timing context panics when the value
\* under the timing key is not a timing Context; no Location is created
\* and no counter changes.
C21_WrongTypedCtxPanics ==
    [][BadCtxCall =>
          /\ out' = PanicOut("invalid context timing type")
          /\ UNCHANGED <<locs, spans>>]_vars

\* the lookup has panicked with a tree in place and a span running
C21_Witness ==
    /\ out = PanicOut("invalid context timing type")
    /\ Len(locs) > 0
    /\ Len(spans) > 0

----------------------------------------------------------------------------
(* Properties: the Timing API *)

\* a call of Start, BeginSubThread or Details with a ctx that carries no
\* Timing
NoTimingCall ==
    \/ \E name \in {StrA, StrEmpty} : GlobalStart(NoCtx, name)
    \/ GlobalBeginSubThread(NoCtx, StrA)
    \/ GlobalDetails(NoCtx)

\* C22: retrieving the timing tree from a context that carries none
\* panics; no tree is returned and none is created.
C22_NoTimingPanics ==
    [][NoTimingCall =>
          /\ out' = PanicOut("no timing context present")
          /\ UNCHANGED <<locs, spans, timings>>]_vars

\* the lookup has panicked although another context does carry a Timing
C22_Witness ==
    /\ out = PanicOut("no timing context present")
    /\ Len(timings) > 0

\* the child named name of the current Location of Timing t has been
\* entered by Start
StartedChild(t, name) ==
    /\ name \in DOMAIN locs[timings[t].current].Children
    /\ locs[locs[timings[t].current].Children[name]].EntryCount > 0

\* C23: BeginSubThread(name) panics when the current Location has a child
\* of that name that was started, and does not mark that child as the root
\* of a sub-thread.
C23_SubThreadNeedsNewLocation ==
    [][\A t \in TimingIds :
          (StartedChild(t, StrA) /\ BeginSubThread(t, StrA)) =>
              /\ out' = PanicOut("sub-threads require a new timing location")
              /\ UNCHANGED <<locs, spans, timings>>]_vars

\* BeginSubThread has panicked over a child that Start made
C23_Witness ==
    /\ out = PanicOut("sub-threads require a new timing location")
    /\ \E t \in TimingIds : StartedChild(t, StrA)
    /\ \A l \in LocIds : ~locs[l].SubThread

----------------------------------------------------------------------------
(* Properties: independent roots *)

\* the root of the tree Location l is in, in heap h
RECURSIVE RootOf(_, _)
RootOf(h, l) == IF h[l].parent = NoLoc THEN l ELSE RootOf(h, h[l].parent)

\* the Locations some Location of heap h has as a child
Registered(h) == UNION {{h[l].Children[k] : k \in DOMAIN h[l].Children} : l \in 1..Len(h)}

\* C24: StartRoot makes a Location that is the child of no Location, even
\* with a tree in place, and leaves every Location there was as it was;
\* what is named or started below a Location changes the tree of that
\* Location only and never joins two trees.
C24_StartRootIsDetached ==
    [][/\ \A name \in Names :
            StartRoot(name) =>
                /\ Len(locs') = Len(locs) + 1
                /\ SubSeq(locs', 1, Len(locs)) = locs
                /\ locs'[Len(locs')].parent = NoLoc
                /\ Len(locs') \notin Registered(locs')
       /\ \A p \in LocIds, name \in Names :
            ((\E async \in BOOLEAN : Start(p, name, async)) \/ ForName(p, name)) =>
                /\ \A l \in LocIds :
                      /\ RootOf(locs', l) = RootOf(locs, l)
                      /\ RootOf(locs, l) # RootOf(locs, p) => locs'[l] = locs[l]
                /\ \A l \in (1..Len(locs')) \ LocIds : RootOf(locs', l) = RootOf(locs, p)]_vars

\* a span has been started below a root that StartRoot made beside the
\* first tree
C24_Witness ==
    /\ Len(locs) = 3
    /\ locs[2].parent = NoLoc
    /\ locs[3].parent = 2
    /\ locs[3].EntryCount = 1
    /\ locs[1].Children = EmptyMap

----------------------------------------------------------------------------
(* Properties: AddDetails *)

\* C25: the assignment of AddDetails sets Details[key] to value and leaves
\* every other key with the value it had, and no step of any goroutine
\* takes a key out of Details: the keys of concurrent callers are all
\* there afterwards.
C25_AddDetailsUpserts ==
    [][/\ \A l \in LocIds : \A k \in DOMAIN locs[l].Details : k \in DOMAIN locs'[l].Details
       /\ \A g \in Goroutines :
            AddDetailsAssigned(g) =>
                LET l == gs[g].loc
                IN  /\ DOMAIN locs'[l].Details = DOMAIN locs[l].Details \cup {gs[g].name}
                    /\ locs'[l].Details[gs[g].name] = gs[g].value
                    /\ \A k \in DOMAIN locs[l].Details \ {gs[g].name} :
                          locs'[l].Details[k] = locs[l].Details[k]]_vars

\* both goroutines have written, each its own key, and are about to unlock
\* or have returned: both keys are there, one of them written over
C25_Witness ==
    /\ DOMAIN locs[1].Details = UpsertKeys
    /\ locs[1].Details[StrA] = StrGt
    /\ locs[1].Details[StrGt] = StrA
    /\ \E g \in Goroutines : gs[g].pc = "unlockDetail" /\ \E h \in Goroutines : gs[h].pc = "details"

----------------------------------------------------------------------------
(* Properties: the layout of the details *)

\* the places where sub occurs in s
Occurrences(s, sub) ==
    {i \in 1..(Len(s) - Len(sub) + 1) : SubSeq(s, i, i + Len(sub) - 1) = sub}

\* the first place; 0 if there is none
FirstOccurrence(s, sub) ==
    IF Occurrences(s, sub) = {} THEN 0
    ELSE CHOOSE i \in Occurrences(s, sub) : \A j \in Occurrences(s, sub) : i <= j

\* the head of the block of the detail k in a report with this prefix
BlockHead(prefix, k) == <<10>> \o prefix \o <<32, 32, 32, 32>> \o k \o <<58>>

\* some value of the details of l holds a line break
BreakInDetails(l) == \E k \in DOMAIN locs[l].Details : 10 \in {locs[l].Details[k][i] : i \in 1..Len(locs[l].Details[k])}

\* C26: details come with their keys in lexical order, and the layout is
\* chosen for the node: with no line break in any value all of them are
\* inline as " (k:v, k:v)"; with a line break in one value every detail has
\* its own indented block below the line and nothing is inline.
C26_DetailsLayout ==
    out.kind = "Report" =>
        \A n \in 1..Len(out.lines) :
            LET l == out.lines[n].loc
                D == out.lines[n].details
                ks == DOMAIN locs[l].Details
                kv(k) == k \o <<58>> \o locs[l].Details[k]
            IN  /\ ks = {} => D = StrEmpty
                /\ (ks # {} /\ ~BreakInDetails(l)) =>
                      /\ \A i \in 1..Len(D) : D[i] # 10
                      /\ SubSeq(D, 1, 2) = <<32, 40>> /\ D[Len(D)] = 41
                      /\ \A k \in ks :
                            \/ Occurrences(D, <<40>> \o kv(k) \o <<44, 32>>) # {}
                            \/ Occurrences(D, <<44, 32>> \o kv(k) \o <<41>>) # {}
                            \/ D = <<32, 40>> \o kv(k) \o <<41>>
                      /\ \A j, k \in ks :
                            StrLess(j, k) =>
                                FirstOccurrence(D, <<40>> \o kv(j) \o <<44, 32>>) = 2
                /\ (ks # {} /\ BreakInDetails(l)) =>
                      /\ D[1] = 10
                      /\ \A i \in 1..Len(D) : D[i] \notin {40, 41, 44}
                      /\ \A k \in ks :
                            Cardinality(Occurrences(D, BlockHead(out.options.Prefix, k))) = 1
                      /\ \A j, k \in ks :
                            StrLess(j, k) =>
                                FirstOccurrence(D, BlockHead(out.options.Prefix, j))
                                    < FirstOccurrence(D, BlockHead(out.options.Prefix, k))

\* ">" with the value "a" and "a" with the value "a\na", reported with the
\* prefix "*": two blocks, the one-line detail first
C26_Witness ==
    /\ out.kind = "Report"
    /\ out.options.Prefix = StrStar
    /\ locs[1].Details = (StrGt :> StrA) @@ (StrA :> <<97, 10, 97>>)
    /\ out.lines[1].details =
          <<10, 42, 32, 32, 32, 32, 62, 58, 97>>
          \o <<10, 42, 32, 32, 32, 32, 97, 58, 97>>
          \o <<10, 42, 32, 32, 32, 32, 32, 32, 97>>

\* ---------------------------------------------------------------------
\* Location.TotalChildDuration as a whole call

\* l.TotalChildDuration(): locks l.mu, adds up child.TotalDuration over
\* l.Children, unlocks, and returns the sum
TotalChildDurationOf(l) ==
    /\ out' = [kind |-> "TotalChildDuration", loc |-> l, d |-> TotalChildDuration(l)]
    /\ UNCHANGED <<locs, spans, gs, now, timings>>

\* SpecChildren: the caller asks any Location of a finished tree for the time
\* its children have spent.
NextChildren == \E l \in LocIds : TotalChildDurationOf(l)

SpecChildren == InitReport /\ [][NextChildren]_vars

\* the TotalDuration of the Locations 1..n that are immediate children of l
RECURSIVE ImmediateSum(_, _)
ImmediateSum(l, n) ==
    IF n = 0 THEN 0
    ELSE (IF n \in ChildIds(l) THEN locs[n].TotalDuration ELSE 0) + ImmediateSum(l, n - 1)

\* C27: TotalChildDuration of a Location is the sum of TotalDuration over its
\* immediate children only (a grandchild's duration is not added), and is
\* zero when the Location has no children.
C27_TotalChildDurationImmediate ==
    out.kind = "TotalChildDuration" =>
        /\ out.d = ImmediateSum(out.loc, Len(locs))
        /\ locs[out.loc].Children = EmptyMap => out.d = 0

\* TotalChildDuration was asked of a Location with a child and a grandchild
\* that both spent time, and returned less than the sum over the subtree
C27_Witness ==
    /\ out.kind = "TotalChildDuration"
    /\ \E c \in ChildIds(out.loc) :
          /\ locs[c].TotalDuration > 0
          /\ \E gc \in ChildIds(c) : locs[gc].TotalDuration > 0
    /\ out.d > 0
    /\ out.d < TotalDescendantDuration(out.loc)

\* ---------------------------------------------------------------------
\* The JSON form of a tree: json.Marshal and json.Unmarshal of a Location,
\* driven by the struct tags of Location

StrFF == <<255>>                   \* "\xff": a string that is not valid UTF-8
StrEAcute == <<195, 169>>          \* "é", two bytes of valid UTF-8
StrReplacement == <<239, 191, 189>> \* U+FFFD as UTF-8

IsCont(s, i) == i <= Len(s) /\ s[i] >= 128 /\ s[i] <= 191

\* utf8.DecodeRune at s[i]: the length of the valid encoding that starts
\* there, or 0 if the bytes there are not valid UTF-8
RuneSize(s, i) ==
    LET b == s[i]
        second(lo, hi) == i + 1 <= Len(s) /\ s[i + 1] >= lo /\ s[i + 1] <= hi
    IN  IF b < 128 THEN 1
        ELSE IF b >= 194 /\ b <= 223 THEN (IF IsCont(s, i + 1) THEN 2 ELSE 0)
        ELSE IF b >= 224 /\ b <= 239
             THEN IF /\ second(IF b = 224 THEN 160 ELSE 128, IF b = 237 THEN 159 ELSE 191)
                     /\ IsCont(s, i + 2)
                  THEN 3 ELSE 0
        ELSE IF b >= 240 /\ b <= 244
             THEN IF /\ second(IF b = 240 THEN 144 ELSE 128, IF b = 244 THEN 143 ELSE 191)
                     /\ IsCont(s, i + 2) /\ IsCont(s, i + 3)
                  THEN 4 ELSE 0
        ELSE 0

RECURSIVE ValidFrom(_, _)
ValidFrom(s, i) ==
    IF i > Len(s) THEN TRUE
    ELSE RuneSize(s, i) > 0 /\ ValidFrom(s, i + RuneSize(s, i))

\* utf8.ValidString
ValidUTF8(s) == ValidFrom(s, 1)

\* one lower-case hexadecimal digit
HexDigit(n) == IF n < 10 THEN 48 + n ELSE 87 + n

\* the escape \uXXXX of a code point below 65536
EscapeU(c) ==
    <<92, 117, HexDigit(c \div 4096), HexDigit((c \div 256) % 16),
      HexDigit((c \div 16) % 16), HexDigit(c % 16)>>

\* what the encoder writes for one byte below 128 (with HTML escaping, the
\* default of json.Marshal)
EscapeByte(b) ==
    IF b = 34 \/ b = 92 THEN <<92, b>>
    ELSE IF b = 10 THEN <<92, 110>>
    ELSE IF b = 13 THEN <<92, 114>>
    ELSE IF b = 9 THEN <<92, 116>>
    ELSE IF b < 32 \/ b \in {38, 60, 62} THEN EscapeU(b)
    ELSE <<b>>

\* the bytes json.Marshal writes between the quotes for a Go string: special
\* bytes escaped, valid UTF-8 copied, and every byte that is not part of
\* valid UTF-8 replaced by the escape of U+FFFD
RECURSIVE EncodeString(_, _)
EncodeString(s, i) ==
    IF i > Len(s) THEN <<>>
    ELSE IF s[i] < 128 THEN EscapeByte(s[i]) \o EncodeString(s, i + 1)
    ELSE LET n == RuneSize(s, i)
         IN  IF n = 0 THEN EscapeU(65533) \o EncodeString(s, i + 1)
             ELSE IF n = 3 /\ s[i] = 226 /\ s[i + 1] = 128 /\ s[i + 2] \in {168, 169}
                  THEN EscapeU(8232 + s[i + 2] - 168) \o EncodeString(s, i + 3)
             ELSE SubSeq(s, i, i + n - 1) \o EncodeString(s, i + n)

\* the value of a hexadecimal digit
HexVal(b) == IF b <= 57 THEN b - 48 ELSE IF b <= 70 THEN b - 55 ELSE b - 87

\* utf8.AppendRune for a code point below 65536 (a surrogate becomes U+FFFD)
EncodeRune(c) ==
    IF c < 128 THEN <<c>>
    ELSE IF c < 2048 THEN <<192 + (c \div 64), 128 + (c % 64)>>
    ELSE IF c >= 55296 /\ c <= 57343 THEN StrReplacement
    ELSE <<224 + (c \div 4096), 128 + ((c \div 64) % 64), 128 + (c % 64)>>

\* the bytes between the quotes taken as they are, escapes not undone
DecodeStringVerbatim(e, i) == e

\* json.Unmarshal's unquote: the Go string of the bytes between the quotes
RECURSIVE DecodeString(_, _)
DecodeString(e, i) ==
    IF i > Len(e) THEN <<>>
    ELSE IF e[i] = 92
         THEN LET c == e[i + 1]
              IN  IF c = 117
                  THEN EncodeRune(4096 * HexVal(e[i + 2]) + 256 * HexVal(e[i + 3])
                                  + 16 * HexVal(e[i + 4]) + HexVal(e[i + 5]))
                       \o DecodeString(e, i + 6)
                  ELSE <<CASE c = 110 -> 10 [] c = 114 -> 13 [] c = 116 -> 9
                           [] c = 98 -> 8 [] c = 102 -> 12 [] OTHER -> c>>
                       \o DecodeString(e, i + 2)
    ELSE LET n == RuneSize(e, i)
         IN  IF n = 0 THEN StrReplacement \o DecodeString(e, i + 1)
             ELSE SubSeq(e, i, i + n - 1) \o DecodeString(e, i + n)

JsonMaxLoc == 3     \* Locations of an encoded tree, in SpecJSON

\* one member of a JSON object, left out under omitempty when the field is
\* empty: "", 0, false, or a map that is nil or has no entries
Member(key, value, empty) == IF empty THEN EmptyMap ELSE key :> value

\* json.Marshal of a Location: an object with a member per exported field
\* in the order of the struct, under the name of its tag; mu is unexported
\* and CallOrder is tagged "-".  A map is written as an object with its
\* keys in sorted order, given here as the sequence of its members.
RECURSIVE MarshalLocation(_)
RECURSIVE MarshalChildren(_, _)
MarshalLocation(l) ==
    LET L == locs[l]
        details == SortStrings(DOMAIN L.Details)
    IN  Member("name", EncodeString(L.Name, 1), L.Name = StrEmpty)
        @@ Member("children", MarshalChildren(l, SortStrings(DOMAIN L.Children)),
                  DOMAIN L.Children = {})
        @@ Member("entry-count", L.EntryCount, L.EntryCount = 0)
        @@ Member("exit-count", L.ExitCount, L.ExitCount = 0)
        @@ Member("total-duration", L.TotalDuration, L.TotalDuration = 0)
        @@ Member("async", TRUE, ~L.Async)
        @@ Member("details",
                  [i \in 1..Len(details) |->
                      [key |-> EncodeString(details[i], 1),
                       value |-> EncodeString(L.Details[details[i]], 1)]],
                  DOMAIN L.Details = {})

MarshalChildren(l, keys) ==
    IF keys = <<>> THEN <<>>
    ELSE <<[key |-> EncodeString(Head(keys), 1),
            value |-> MarshalLocation(locs[l].Children[Head(keys)])]>>
         \o MarshalChildren(l, Tail(keys))

\* the value of one member, or the zero value of the field if it is absent
Field(js, key, zero) == IF key \in DOMAIN js THEN js[key] ELSE zero

\* json.Unmarshal of a string-valued object into a map: the members are
\* stored in the order they come, a later one replacing an earlier one with
\* the same key
RECURSIVE UnmarshalDetails(_, _)
UnmarshalDetails(members, n) ==
    IF n = 0 THEN EmptyMap
    ELSE (DecodeString(members[n].key, 1) :> DecodeString(members[n].value, 1))
         @@ UnmarshalDetails(members, n - 1)

\* json.Unmarshal into a new Location: every member sets its field, the
\* fields without a member keep their zero value.  The result is the tree
\* as a value, the children held in the map itself.
RECURSIVE UnmarshalLocation(_)
RECURSIVE UnmarshalChildren(_, _)
UnmarshalLocation(js) ==
    [ Name |-> DecodeString(Field(js, "name", <<>>), 1),
      Children |-> LET c == Field(js, "children", <<>>) IN UnmarshalChildren(c, Len(c)),
      EntryCount |-> Field(js, "entry-count", 0),
      ExitCount |-> Field(js, "exit-count", 0),
      TotalDuration |-> Field(js, "total-duration", 0),
      Async |-> Field(js, "async", FALSE),
      Details |-> LET d == Field(js, "details", <<>>) IN UnmarshalDetails(d, Len(d)) ]

UnmarshalChildren(members, n) ==
    IF n = 0 THEN EmptyMap
    ELSE (DecodeString(members[n].key, 1) :> UnmarshalLocation(members[n].value))
         @@ UnmarshalChildren(members, n - 1)

\* js, err := json.Marshal(l)
Marshal(l) ==
    /\ out' = [kind |-> "Marshal", loc |-> l, js |-> MarshalLocation(l)]
    /\ UNCHANGED <<locs, spans, gs, now, timings>>

\* var decoded Location; json.Unmarshal(js, &decoded), js from the last Marshal
Unmarshal ==
    /\ out.kind = "Marshal"
    /\ out' = [kind |-> "Unmarshal", loc |-> out.loc, js |-> out.js,
               decoded |-> UnmarshalLocation(out.js)]
    /\ UNCHANGED <<locs, spans, gs, now, timings>>

\* the names given to the Locations of an encoded tree
JsonNames == {StrGt, StrEAcute, StrFF}

\* the counters of an encoded Location: never started, completed once,
\* completed twice as an Async Location
JsonCounts ==
    { [EntryCount |-> 0, ExitCount |-> 0, TotalDuration |-> 0, Async |-> FALSE],
      [EntryCount |-> 1, ExitCount |-> 1, TotalDuration |-> 1, Async |-> FALSE],
      [EntryCount |-> 2, ExitCount |-> 2, TotalDuration |-> 3, Async |-> TRUE] }

\* the details of the root of an encoded tree
JsonDetails == {EmptyMap, StrGt :> StrA, (StrA :> StrGt) @@ (StrFF :> StrA)}

\* the heaps that n - 1 getChild insertions build below a root that is
\* unnamed (Root) or named
RECURSIVE JsonHeaps(_)
JsonHeaps(n) ==
    IF n = 1 THEN {<<NewLocation(name, NoLoc)>> : name \in {StrEmpty, StrA}}
    ELSE UNION {{InsertChildIn(h, p, name) : name \in JsonNames \ DOMAIN h[p].Children} :
                    h \in JsonHeaps(n - 1), p \in 1..(n - 1)}

\* A finished tree with details on its root.
InitJSON ==
    /\ locs \in UNION {{[WithCounts(h, f) EXCEPT ![1].Details = d] :
                           h \in JsonHeaps(n), f \in [1..n -> JsonCounts], d \in JsonDetails} :
                          n \in 1..JsonMaxLoc}
    /\ spans = <<>>
    /\ gs = [g \in Goroutines |-> IdleG]
    /\ now = 0
    /\ out = NoOut
    /\ timings = <<>>

\* SpecJSON: the caller encodes a Location of a finished tree and decodes
\* what the encoder wrote.
NextJSON ==
    \/ \E l \in LocIds : Marshal(l)
    \/ Unmarshal

SpecJSON == InitJSON /\ [][NextJSON]_vars

\* the tree below Location l as a value: what the round trip is to keep
RECURSIVE TreeOf(_)
TreeOf(l) ==
    [ Name |-> locs[l].Name,
      EntryCount |-> locs[l].EntryCount,
      ExitCount |-> locs[l].ExitCount,
      TotalDuration |-> locs[l].TotalDuration,
      Async |-> locs[l].Async,
      Children |-> [k \in DOMAIN locs[l].Children |-> TreeOf(locs[l].Children[k])],
      DetailKeys |-> DOMAIN locs[l].Details ]

\* the same fields of a decoded tree
RECURSIVE DecodedTree(_)
DecodedTree(d) ==
    [ Name |-> d.Name,
      EntryCount |-> d.EntryCount,
      ExitCount |-> d.ExitCount,
      TotalDuration |-> d.TotalDuration,
      Async |-> d.Async,
      Children |-> [k \in DOMAIN d.Children |-> DecodedTree(d.Children[k])],
      DetailKeys |-> DOMAIN d.Details ]

\* the tags of the fields of l that hold a value other than the zero value
NonZeroFields(l) ==
    {k \in {"name", "children", "entry-count", "exit-count", "total-duration",
            "async", "details"} :
        CASE k = "name" -> locs[l].Name # StrEmpty
          [] k = "children" -> DOMAIN locs[l].Children # {}
          [] k = "entry-count" -> locs[l].EntryCount # 0
          [] k = "exit-count" -> locs[l].ExitCount # 0
          [] k = "total-duration" -> locs[l].TotalDuration # 0
          [] k = "async" -> locs[l].Async
          [] k = "details" -> DOMAIN locs[l].Details # {}}

\* the object js written for l has a member for exactly the fields of l
\* that are not zero, and so has every object written for a Location below
RECURSIVE OmitsZero(_, _)
OmitsZero(l, js) ==
    /\ DOMAIN js = NonZeroFields(l)
    /\ "children" \in DOMAIN js =>
          LET keys == SortStrings(DOMAIN locs[l].Children)
          IN  /\ Len(js.children) = Len(keys)
              /\ \A i \in 1..Len(keys) :
                    OmitsZero(locs[l].Children[keys[i]], js.children[i].value)

RoundTrips == DecodedTree(out.decoded) = TreeOf(out.loc)

\* every name and every detail key in the tree below l is valid UTF-8
ValidNames(l) ==
    \A x \in {l} \cup Descendants(l) :
        /\ ValidUTF8(locs[x].Name)
        /\ \A k \in DOMAIN locs[x].Details : ValidUTF8(k)

\* C28 as stated: encoding any tree to JSON and decoding the result yields
\* the same Name, counts, TotalDuration, Async flag, children by name
\* (recursively) and detail keys at every node, and zero-valued fields are
\* omitted from the encoding.
C28_RoundTripAnyTree ==
    out.kind = "Unmarshal" => RoundTrips /\ OmitsZero(out.loc, out.js)

\* What holds of the round trip of C28: for a tree whose names and detail
\* keys are valid UTF-8, encoding
\* it to JSON and decoding the result yields a tree with the same Name,
\* EntryCount, ExitCount, TotalDuration, Async flag, children by name
\* (recursively) and detail keys at every node; for any tree, the fields
\* holding a zero value are omitted from the encoding.
C28_RoundTripValidNames ==
    out.kind = "Unmarshal" =>
        /\ ValidNames(out.loc) => RoundTrips
        /\ OmitsZero(out.loc, out.js)

\* a decoded tree of three Locations with valid names, one of them written
\* with an escape and one in two bytes, with an un-started Location whose
\* counters were omitted, an Async one, and a detail
C28_Witness ==
    /\ out.kind = "Unmarshal"
    /\ ValidNames(out.loc)
    /\ locs[out.loc].parent = NoLoc
    /\ Len(locs) = 3
    /\ \E x, y \in LocIds :
          /\ locs[x].Name = StrGt /\ locs[x].EntryCount = 0
          /\ locs[y].Name = StrEAcute /\ locs[y].Async
          /\ locs[y].parent = x
    /\ DOMAIN locs[out.loc].Details # {}
    /\ out.js.children[1].key # locs[out.loc].CallOrder[1]
    /\ RoundTrips

\* ---------------------------------------------------------------------
\* The mutexes: every operation of a Location step by step

LockMaxLoc == 3     \* Locations, in SpecLocks
LockMaxSpan == 1    \* Start calls, in SpecLocks
LockMaxDetails == 1 \* details added, in SpecLocks

\* l.TotalChildDuration() is called by a caller of its own
CallTotalChildDuration(g, l) ==
    /\ Free(g)
    /\ gs' = SetG(g, [IdleG EXCEPT !.pc = "childDur", !.op = "TotalChildDuration", !.loc = l])
    /\ UNCHANGED <<locs, spans, now, out, timings>>

\* l.mu.Lock() of TotalChildDuration
TotalChildDurationLock(g) ==
    /\ gs[g].pc = "childDur"
    /\ MutexFree(gs[g].loc)
    /\ locs' = [locs EXCEPT ![gs[g].loc].mu = g]
    /\ gs' = SetG(g, [gs[g] EXCEPT !.pc = "childSum"])
    /\ UNCHANGED <<spans, now, out, timings>>

\* the return without the deferred Unlock
TotalChildDurationReturn(g) ==
    /\ gs[g].pc = "childSum"
    /\ gs' = IF gs[g].op = "TotalChildDuration" THEN Return(g)
             ELSE SetG(g, [gs[g] EXCEPT !.pc = "range", !.d = TotalChildDuration(gs[g].loc)])
    /\ UNCHANGED <<locs, spans, now, out, timings>>

\* the loop over l.Children, the return and the deferred l.mu.Unlock():
\* back in the caller, or in the report that called
TotalChildDurationUnlock(g) ==
    /\ gs[g].pc = "childSum"
    /\ locs' = [locs EXCEPT ![gs[g].loc].mu = NoOwner]
    /\ gs' = IF gs[g].op = "TotalChildDuration" THEN Return(g)
             ELSE SetG(g, [gs[g] EXCEPT !.pc = "range", !.d = TotalChildDuration(gs[g].loc)])
    /\ UNCHANGED <<spans, now, out, timings>>

\* l.Report(options) with options.ExcludeChildren = exclude, or
\* l.ReportMap(separator, divisor, exclude), or l.String() (a Report that
\* excludes nothing), is called: dumpToBuilder or dumpToMap is about to
\* enter l
CallReport(g, l, op, exclude) ==
    /\ Free(g)
    /\ gs' = SetG(g, [IdleG EXCEPT !.pc = "visit", !.op = op, !.todo = <<l>>,
                        !.exclude = exclude])
    /\ UNCHANGED <<locs, spans, now, out, timings>>

\* whether dumpToBuilder (op "Report") or dumpToMap calls
\* l.TotalChildDuration(): only for a named Location, under
\* `options.ExcludeChildren && !l.Async` or `excludeChildren`
CallsTotalChildDuration(op, l, exclude) ==
    /\ locs[l].Name # StrEmpty
    /\ exclude
    /\ op = "ReportMap" \/ ~locs[l].Async

\* dumpToBuilder or dumpToMap enters the next Location, up to the call of
\* TotalChildDuration if there is one
ReportVisit(g) ==
    LET l == Head(gs[g].todo) IN
    /\ gs[g].pc = "visit"
    /\ gs' = SetG(g, [gs[g] EXCEPT
                 !.loc = l,
                 !.pc = IF CallsTotalChildDuration(gs[g].op, l, gs[g].exclude)
                        THEN "childDur" ELSE "range"])
    /\ UNCHANGED <<locs, spans, now, out, timings>>

\* the sequences that list the elements of S once each
RECURSIVE Orders(_)
Orders(S) ==
    IF S = {} THEN {<<>>}
    ELSE UNION {{<<x>> \o o : o \in Orders(S \ {x})} : x \in S}

\* the names sorted in place in l.CallOrder instead of in a slice of the call
ReportRangeSortingCallOrder(g) ==
    LET l == gs[g].loc
        sorted == SortStrings(DOMAIN locs[l].Children)
        writers == {h \in Goroutines :
                       \/ gs[h].pc = "assign" /\ gs[h].parent = l
                       \/ gs[g].op \in {"Report", "String"} /\ gs[h].pc = "assignDetail" /\ gs[h].loc = l}
    IN  /\ gs[g].pc = "range"
        /\ gs[g].op \in {"Report", "ReportMap", "String"}
        /\ locs' = [locs EXCEPT ![l].CallOrder = sorted]
        /\ UNCHANGED <<spans, now, timings>>
        /\ \/ /\ \E next \in IF gs[g].op # "ReportMap"
                             THEN {[i \in 1..Len(sorted) |-> locs[l].Children[sorted[i]]]}
                             ELSE Orders(ChildIds(l)) :
                    gs' = IF next \o Tail(gs[g].todo) = <<>> THEN Return(g)
                          ELSE SetG(g, [gs[g] EXCEPT !.pc = "visit",
                                                     !.todo = next \o Tail(gs[g].todo)])
              /\ UNCHANGED out
           \/ /\ writers # {}
              /\ out' = FatalOut("concurrent map iteration and map write")
              /\ gs' = SetG(g, [gs[g] EXCEPT !.pc = "fatal"])

\* the rest of the Location: formatDetails (Report and String) and the range over
\* l.Children, neither under l.mu.  The children are entered next, in
\* sorted order (dumpToBuilder) or in any order (dumpToMap).  With a write
\* to the map in progress the runtime may end the process.
ReportRange(g) ==
    LET l == gs[g].loc
        sorted == SortStrings(DOMAIN locs[l].Children)
        writers == {h \in Goroutines :
                       \/ gs[h].pc = "assign" /\ gs[h].parent = l
                       \/ gs[g].op \in {"Report", "String"} /\ gs[h].pc = "assignDetail" /\ gs[h].loc = l}
    IN  /\ gs[g].pc = "range"
        /\ gs[g].op \in {"Report", "ReportMap", "String"}
        /\ UNCHANGED <<locs, spans, now, timings>>
        /\ \/ /\ \E next \in IF gs[g].op # "ReportMap"
                             THEN {[i \in 1..Len(sorted) |-> locs[l].Children[sorted[i]]]}
                             ELSE Orders(ChildIds(l)) :
                    gs' = IF next \o Tail(gs[g].todo) = <<>> THEN Return(g)
                          ELSE SetG(g, [gs[g] EXCEPT !.pc = "visit",
                                                     !.todo = next \o Tail(gs[g].todo)])
              /\ UNCHANGED out
           \/ /\ writers # {}
              /\ out' = FatalOut("concurrent map iteration and map write")
              /\ gs' = SetG(g, [gs[g] EXCEPT !.pc = "fatal"])

\* the steps goroutine g can take inside the call it is in
LockStep(g) ==
    \/ GetChildLookup(g)
    \/ GetChildAssign(g)
    \/ GetChildAssigned(g)
    \/ GetChildUnlock(g)
    \/ StartInc(g)
    \/ StartNow(g)
    \/ CompleteCAS(g)
    \/ CompleteAddExit(g)
    \/ CompleteAddDur(g)
    \/ AddDetailsLock(g)
    \/ AddDetailsAssigned(g)
    \/ AddDetailsUnlock(g)
    \/ TotalChildDurationLock(g)
    \/ TotalChildDurationUnlock(g)
    \/ ReportVisit(g)
    \/ ReportRange(g)

\* SpecLocks: goroutines call Start, Complete, AddDetails,
\* TotalChildDuration, Report and ReportMap on one tree, in any
\* interleaving of their steps.
NextLocks ==
    \/ \E g \in Goroutines, ctx \in LocIds, name \in Names :
          /\ Running
          /\ Len(locs) + PendingLocs + Assigning < LockMaxLoc
          /\ Len(spans) + PendingSpans < LockMaxSpan
          /\ CallForName(g, ctx, name, "Start")
    \/ \E g \in Goroutines, s \in SpanIds :
          /\ Running
          /\ spans[s].invoked = 0
          /\ CallComplete(g, s)
    \/ \E g \in Goroutines, l \in LocIds, key \in DetailKeys, value \in DetailValues :
          /\ Running
          /\ SumDetails(Len(locs)) + Cardinality({h \in Goroutines : gs[h].op = "AddDetails"})
                < LockMaxDetails
          /\ CallAddDetails(g, l, key, value)
    \/ \E g \in Goroutines, l \in LocIds : Running /\ CallTotalChildDuration(g, l)
    \/ \E g \in Goroutines, l \in Roots, op \in {"Report", "ReportMap"}, exclude \in BOOLEAN :
          Running /\ CallReport(g, l, op, exclude)
    \/ \E g \in Goroutines, l \in Roots : Running /\ CallReport(g, l, "String", FALSE)
    \/ \E g \in Goroutines : Running /\ LockStep(g)

SpecLocks == Init /\ [][NextLocks]_vars

\* the mutexes goroutine g holds
HeldBy(g) == {l \in LocIds : locs[l].mu = g}

\* the mutex whose Lock goroutine g is about to call, if any
WaitsFor(g) ==
    IF gs[g].pc = "getChild" THEN {gs[g].parent}
    ELSE IF gs[g].pc \in {"details", "childDur"} THEN {gs[g].loc}
    ELSE {}

\* C29: no operation (Start, Complete, getChild, AddDetails,
\* TotalChildDuration, Report, ReportMap) holds the mutex of more than one
\* Location at a time or calls Lock on a mutex while it holds one, its own
\* included, and no goroutine inside an operation is ever stuck: it can
\* take its next step, or it waits for a mutex whose holder can take its
\* next step (no deadlock).
C29_OneMutexNoDeadlock ==
    Running =>
        \A g \in Goroutines :
            /\ Cardinality(HeldBy(g)) <= 1
            /\ HeldBy(g) # {} => WaitsFor(g) = {} /\ gs[g].pc # "idle"
            /\ gs[g].pc # "idle" =>
                  \/ ENABLED LockStep(g)
                  \/ \E l \in WaitsFor(g) :
                        /\ locs[l].mu \in Goroutines \ {g}
                        /\ ENABLED LockStep(locs[l].mu)

\* a Report inside TotalChildDuration holds the mutex of a Location while
\* another goroutine, inside getChild for a Start, waits for that mutex
C29_Witness ==
    \E g, h \in Goroutines :
        /\ gs[g].op = "Report" /\ gs[g].pc = "childSum"
        /\ gs[h].op = "Start" /\ gs[h].pc = "getChild"
        /\ WaitsFor(h) = HeldBy(g)
        /\ ~ENABLED LockStep(h)
        /\ Len(locs) > 1

\* ---------------------------------------------------------------------
\* Complete: the two counters of a completion

\* goroutines that have counted the exit of a completion on l and have not
\* added its elapsed time yet
BetweenUpdates(l) == {g \in Goroutines : gs[g].loc = l /\ gs[g].pc = "addDur"}

\* C30 as stated: Complete updates ExitCount and TotalDuration as one
\* atomic step, so that in every state another goroutine can observe
\* ExitCount counts exactly the completions whose elapsed time has been
\* added to TotalDuration.
C30_ExitAndDurationTogether ==
    \A l \in LocIds :
        /\ locs[l].ExitCount = Cardinality(Completed(l))
        /\ locs[l].TotalDuration = SumElapsed(Completed(l))

\* C30: Complete increments ExitCount with one atomic operation and then
\* adds the elapsed time to TotalDuration with a second one.  No step
\* changes both; ExitCount counts the completions that have returned and
\* those between the two operations, TotalDuration holds the elapsed time
\* of the completions that have returned only, so ExitCount may run ahead
\* of TotalDuration and never behind it; with no Complete in progress the
\* two agree.
C30_ExitThenDuration ==
    /\ [](\A l \in LocIds :
            /\ locs[l].ExitCount = Cardinality(Completed(l)) + Cardinality(BetweenUpdates(l))
            /\ locs[l].TotalDuration = SumElapsed(Completed(l)))
    /\ [][\A l \in LocIds :
            locs'[l].ExitCount # locs[l].ExitCount
               => locs'[l].TotalDuration = locs[l].TotalDuration]_vars

\* a completion that took one tick has been counted in ExitCount and its
\* time is not in TotalDuration yet, while another goroutine is free to
\* read both
C30_Witness ==
    \E l \in LocIds : \E g \in BetweenUpdates(l) :
        /\ gs[g].d = 1
        /\ locs[l].ExitCount = 1
        /\ locs[l].TotalDuration = 0
        /\ \E h \in Goroutines : h # g /\ gs[h].pc = "idle"

\* ---------------------------------------------------------------------
\* The reports leave the tree as it is

ReadOnlyOps == {"Report", "ReportMap", "String", "TotalChildDuration"}

\* the fields of a Location other than its mutex
Fields(L) ==
    [ Name |-> L.Name, EntryCount |-> L.EntryCount, ExitCount |-> L.ExitCount,
      TotalDuration |-> L.TotalDuration, Async |-> L.Async, Children |-> L.Children,
      CallOrder |-> L.CallOrder, Details |-> L.Details ]

\* C31: Report, String, ReportMap and TotalChildDuration are read-only:
\* no step of a goroutine inside one of them, from the call to the return,
\* changes the Name, EntryCount, ExitCount, TotalDuration, Async flag,
\* Children, CallOrder or Details of any Location, or adds a Location.
C31_ReportsReadOnly ==
    [][\A g \in Goroutines :
          /\ gs'[g] # gs[g]
          /\ gs[g].op \in ReadOnlyOps \/ gs'[g].op \in ReadOnlyOps
          => /\ Len(locs') = Len(locs)
             /\ \A l \in LocIds : Fields(locs'[l]) = Fields(locs[l])]_vars

\* a Report has gone through TotalChildDuration of a Location that has
\* children in an order other than the sorted one and a detail, holds its
\* mutex, and another goroutine is inside an operation
C31_Witness ==
    \E g, h \in Goroutines, l \in LocIds :
        /\ gs[g].op \in {"Report", "ReportMap"} /\ gs[g].pc = "childSum"
        /\ locs[l].mu = g
        /\ Len(locs[l].CallOrder) = 2
        /\ locs[l].CallOrder # SortStrings(DOMAIN locs[l].Children)
        /\ gs[h].op \notin ReadOnlyOps \cup {"none"}

\* ---------------------------------------------------------------------
\* The path printed before a name

\* SpecPath: the caller asks for reports of a finished tree whose root is
\* unnamed (Root) or named, with ordinary and Async Locations.
NextPath == \E l \in Roots, options \in ReportOptions : Report(l, options)

SpecPath == InitJSON /\ [][NextPath]_vars

\* the ancestors of l, from the root of its tree down to its parent
RECURSIVE AncestorsTopDown(_)
AncestorsTopDown(l) ==
    IF locs[l].parent = NoLoc THEN <<>>
    ELSE AncestorsTopDown(locs[l].parent) \o <<locs[l].parent>>

\* the name of a Location as a report renders it
Rendered(l) == IF locs[l].Async THEN <<91>> \o locs[l].Name \o <<93>> ELSE locs[l].Name

\* for the named ones of as[i..], top down: the rendered name and the
\* separator, or in compact mode the separator alone
RECURSIVE PathOver(_, _, _)
PathOver(as, i, options) ==
    IF i > Len(as) THEN <<>>
    ELSE (IF locs[as[i]].Name = StrEmpty THEN <<>>
          ELSE IF options.Compact THEN options.Separator
          ELSE Rendered(as[i]) \o options.Separator)
         \o PathOver(as, i + 1, options)

\* C32: in expanded mode the path printed before a node's name is the
\* rendered names of all its named ancestors from the top down (an Async
\* ancestor in square brackets), each followed by the separator; in compact
\* mode it holds no ancestor name and is the separator repeated once per
\* named ancestor.
C32_PathOfAncestors ==
    out.kind = "Report" =>
        \A i \in 1..Len(out.lines) :
            out.lines[i].path = PathOver(AncestorsTopDown(out.lines[i].loc), 1, out.options)

\* an expanded report with a line below two named ancestors, the nearer one
\* Async: the path is "a > [>] > "
C32_Witness ==
    /\ out.kind = "Report"
    /\ ~out.options.Compact
    /\ \E i \in 1..Len(out.lines) :
          LET as == AncestorsTopDown(out.lines[i].loc)
          IN  /\ Len(as) = 2
              /\ locs[as[1]].Name = StrA /\ ~locs[as[1]].Async
              /\ locs[as[2]].Name = StrGt /\ locs[as[2]].Async
              /\ out.lines[i].path = StrA \o StrGtDefault \o <<91, 62, 93>> \o StrGtDefault

\* ---------------------------------------------------------------------
\* The chain of contexts

ChainMaxLoc == 3    \* Locations, in SpecChain
ChainMaxSpan == 3   \* Start calls, in SpecChain
ChainMaxLen == 3    \* contexts wrapped around context.Background() in an argument

\* A context.Context as a value: the contexts wrapped around
\* context.Background(), the outermost wrapper first.  A frame is a timing
\* *Context (with its Location) or the context of context.WithValue under a
\* key of the caller.
TimingFrame(l) == [kind |-> "timing", loc |-> l]
ValueFrame == [kind |-> "value", loc |-> NoLoc]

\* the value of the first frame only: a wrapper hides the timing Context
ContextValueOutermost(ctx, i) ==
    IF i > Len(ctx) \/ ctx[i].kind # "timing" THEN NoCtx ELSE ctx[i].loc

\* ctx.Value(ContextTimingKey) from frame i on: a timing Context answers
\* with itself (Context.Value), every other context hands the question to
\* the context it wraps, context.Background() answers nil
RECURSIVE ContextValue(_, _)
ContextValue(ctx, i) ==
    IF i > Len(ctx) THEN NoCtx
    ELSE IF ctx[i].kind = "timing" THEN ctx[i].loc
    ELSE ContextValue(ctx, i + 1)

\* the contexts a caller can hold: a timing Context of a child wraps a
\* context that leads to the Context of its parent, a timing Context of a
\* root made by Start wraps one that leads to none
RECURSIVE Obtainable(_, _)
Obtainable(ctx, i) ==
    IF i > Len(ctx) THEN TRUE
    ELSE /\ ctx[i].kind = "timing" =>
               ContextValue(ctx, i + 1) =
                   (IF locs[ctx[i].loc].parent = NoLoc THEN NoCtx ELSE locs[ctx[i].loc].parent)
         /\ Obtainable(ctx, i + 1)

Contexts ==
    {ctx \in UNION {[1..n -> {ValueFrame} \cup {TimingFrame(l) : l \in LocIds}] :
                        n \in 0..ChainMaxLen} : Obtainable(ctx, 1)}

\* Start(ctx, name): ForName finds the parent through ctx.Value, Start
\* starts the Context ForName returns; that Context, which wraps ctx, is
\* handed back with the Complete function
StartIn(ctx, name) ==
    LET p == ContextValue(ctx, 1)
        c == ForNameLoc(p, name)
    IN  /\ locs' = StartedHeap(ForNameHeap(p, name), c)
        /\ spans' = Append(spans, StartedSpan(c))
        /\ out' = [kind |-> "Context", ctx |-> <<TimingFrame(c)>> \o ctx]
        /\ UNCHANGED <<gs, now, timings>>

\* SpecChain: a single caller starts spans with the contexts it holds, bare
\* or wrapped with context.WithValue, and completes them.
NextChain ==
    \/ \E ctx \in Contexts, name \in Names :
          /\ Len(locs) < ChainMaxLoc /\ Len(spans) < ChainMaxSpan
          /\ StartIn(ctx, name)
    \/ \E s \in SpanIds : spans[s].invoked = 0 /\ Complete(s)

SpecChain == InitRoot /\ [][NextChain]_vars

\* the Locations of the timing Contexts among the frames i.. of ctx, the
\* outermost first
RECURSIVE TimingLocs(_, _)
TimingLocs(ctx, i) ==
    IF i > Len(ctx) THEN <<>>
    ELSE (IF ctx[i].kind = "timing" THEN <<ctx[i].loc>> ELSE <<>>) \o TimingLocs(ctx, i + 1)

\* C33: Start(ctx, name) attaches the span to a child named name of the
\* Location of the innermost timing Context reachable through the contexts
\* ctx wraps, also when non-timing wrappers lie in between, and makes a new
\* root named name only when no timing Context is reachable from ctx.
C33_StartUnderInnermost ==
    [][\A ctx \in Contexts, name \in Names :
          StartIn(ctx, name) =>
              LET c == spans'[Len(spans')].loc
                  reachable == TimingLocs(ctx, 1)
              IN  /\ Len(spans') = Len(spans) + 1
                  /\ locs'[c].Name = name
                  /\ locs'[c].EntryCount = (IF c \in LocIds THEN locs[c].EntryCount ELSE 0) + 1
                  /\ IF reachable = <<>>
                     THEN /\ c \notin LocIds
                          /\ \A l \in LocIds : locs'[l] = locs[l]
                     ELSE /\ name \in DOMAIN locs'[reachable[1]].Children
                          /\ locs'[reachable[1]].Children[name] = c
                          /\ \A l \in LocIds \ {reachable[1], c} : locs'[l] = locs[l]]_vars

\* a span was started below a Location that is itself a child, with a
\* context in which a non-timing wrapper lies over the timing Context of
\* that Location
C33_Witness ==
    /\ out.kind = "Context"
    /\ Len(out.ctx) = 4
    /\ out.ctx[2].kind = "value"
    /\ out.ctx[3].kind = "timing"
    /\ out.ctx[4].kind = "timing"
    /\ locs[out.ctx[3].loc].parent = out.ctx[4].loc
    /\ locs[out.ctx[1].loc].parent = out.ctx[3].loc
    /\ spans[Len(spans)].loc = out.ctx[1].loc

\* ---------------------------------------------------------------------
\* The children of a Location over time

\* C34: once a child Location has been registered under a name, no step
\* removes it from its parent's Children or puts another instance under
\* that name: along every execution the children of each Location only
\* grow.
C34_ChildrenOnlyGrow ==
    [][\A l \in LocIds :
          /\ l \in 1..Len(locs')
          /\ \A name \in DOMAIN locs[l].Children :
                /\ name \in DOMAIN locs'[l].Children
                /\ locs'[l].Children[name] = locs[l].Children[name]]_vars

\* a goroutine that asked for a name after a child was registered under it
\* holds the mutex of the parent and has found that child, which has been
\* started in the meantime
C34_Witness ==
    \E g \in Goroutines :
        /\ gs[g].pc = "unlock" /\ gs[g].found
        /\ ~gs[g].absentAtCall
        /\ locs[gs[g].parent].Children[gs[g].name] = gs[g].loc
        /\ locs[gs[g].loc].EntryCount = 1

\* ---------------------------------------------------------------------
\* The Timing API: the current Location of a Timing

\* the spans started on Timing t
SpansOf(t) == {s \in SpanIds : spans[s].t = t}

\* C35: for the Timing API, Start(name) nests the new span under the span
\* that is currently open and the returned Completed restores the previous
\* position: once every span that was started has been completed, the
\* current Location of the Timing is its root again, so that the next Start
\* makes a top-level child of the root.
C35_AllCompletedAtRoot ==
    \A t \in TimingIds :
        (\A s \in SpansOf(t) : spans[s].invoked >= 1) => timings[t].current = timings[t].root

\* ---------------------------------------------------------------------
\* The variant with the start time on the timing Context (timing.go, first
\* version): Context.Start and Context.Complete

\* time.Time{}: the zero start time of a Context that is not started
ZeroTime == -1

ReMaxLoc == 2
ReMaxEntry == 2

\* &Context{Name: name, parent: parent} and, for Root, &Context{prevCtx: ctx}
NewContext(name, parent, prevCtx) ==
    [ Name |-> name,
      parent |-> parent,
      prevCtx |-> prevCtx,
      startTime |-> ZeroTime,
      Children |-> EmptyMap,
      EntryCount |-> 0,
      ExitCount |-> 0,
      TotalDuration |-> 0 ]

\* the contexts a caller can pass: nil, context.Background() and every
\* timing Context made so far
ContextArgs == {NilCtx, NoCtx} \cup LocIds

\* Root(ctx)
ContextRoot(ctx) ==
    /\ IF ctx = NilCtx
       THEN /\ out' = PanicOut("context must be defined")
            /\ UNCHANGED locs
       ELSE /\ locs' = Append(locs, NewContext(StrEmpty, NoLoc, ctx))
            /\ out' = [kind |-> "Context", op |-> "Root", ctx |-> Len(locs) + 1]
    /\ UNCHANGED <<spans, gs, now, timings>>

\* the heap after ForName(ctx, name) and the Context it returns: a Context
\* with no parent when ctx holds no timing Context, else getChild(name) of
\* the timing Context, which ctx is itself
ContextFor(ctx, name) ==
    IF ctx = NoCtx
    THEN [locs |-> Append(locs, NewContext(name, NoLoc, NilCtx)), c |-> Len(locs) + 1]
    ELSE IF name \in DOMAIN locs[ctx].Children
         THEN [locs |-> locs, c |-> locs[ctx].Children[name]]
         ELSE [locs |-> Append([locs EXCEPT ![ctx].Children = MapPut(@, name, Len(locs) + 1)],
                               NewContext(name, ctx, NilCtx)),
               c |-> Len(locs) + 1]

\* c.Start(ctx) on the heap h, without the test of the start time and of
\* prevCtx
ContextStartUnchecked(h, c, ctx, op) ==
    /\ locs' = [h EXCEPT ![c].prevCtx = ctx,
                         ![c].EntryCount = @ + 1,
                         ![c].startTime = now]
    /\ out' = [kind |-> "Context", op |-> op, ctx |-> c]

\* c.Start(ctx) on the heap h
ContextStart(h, c, ctx, op) ==
    IF h[c].startTime # ZeroTime \/ h[c].prevCtx # NilCtx
    THEN /\ out' = [kind |-> "panic", op |-> op, ctx |-> c, msg |-> "reentrant timing not supported"]
         /\ locs' = h
    ELSE /\ locs' = [h EXCEPT ![c].prevCtx = ctx,
                              ![c].EntryCount = @ + 1,
                              ![c].startTime = now]
         /\ out' = [kind |-> "Context", op |-> op, ctx |-> c]

\* the method c.Start(ctx) called by the client
CallContextStart(c, ctx) ==
    /\ ContextStart(locs, c, ctx, "Start")
    /\ UNCHANGED <<spans, gs, now, timings>>

\* ForName(ctx, name)
ContextForName(ctx, name) ==
    /\ IF Len(name) = 0
       THEN /\ out' = PanicOut("non-root timings must be named")
            /\ UNCHANGED locs
       ELSE IF ctx = NilCtx
       THEN /\ out' = PanicOut("context must be defined")
            /\ UNCHANGED locs
       ELSE LET r == ContextFor(ctx, name)
            IN  /\ locs' = r.locs
                /\ out' = [kind |-> "Context", op |-> "ForName", ctx |-> r.c]
    /\ UNCHANGED <<spans, gs, now, timings>>

\* Start(ctx, name): ForName(ctx, name), then Start(ctx) on the result
StartNamed(ctx, name) ==
    /\ IF Len(name) = 0
       THEN /\ out' = PanicOut("non-root timings must be named")
            /\ UNCHANGED locs
       ELSE IF ctx = NilCtx
       THEN /\ out' = PanicOut("context must be defined")
            /\ UNCHANGED locs
       ELSE LET r == ContextFor(ctx, name)
            IN  ContextStart(r.locs, r.c, ctx, "Start")
    /\ UNCHANGED <<spans, gs, now, timings>>

\* c.Complete()
ContextComplete(c) ==
    /\ LET d == now - locs[c].startTime
       IN  IF locs[c].startTime = ZeroTime \/ locs[c].prevCtx = NilCtx
           THEN /\ out' = [kind |-> "panic", op |-> "Complete", ctx |-> c, msg |-> "timing context not started"]
                /\ UNCHANGED locs
           ELSE /\ locs' = [locs EXCEPT ![c].startTime = ZeroTime,
                                        ![c].ExitCount = @ + 1,
                                        ![c].prevCtx = NilCtx,
                                        ![c].TotalDuration = @ + d]
                /\ out' = [kind |-> "Completed", op |-> "Complete", ctx |-> c]
    /\ UNCHANGED <<spans, gs, now, timings>>

\* the successful Starts of one Context are capped at ReMaxEntry; a Start
\* that panics is always possible
StartBounded(c) ==
    \/ locs[c].EntryCount < ReMaxEntry
    \/ locs[c].startTime # ZeroTime
    \/ locs[c].prevCtx # NilCtx

\* SpecReentrant: one caller makes contexts with Root, ForName and Start,
\* and calls Start and Complete on any of them in any order.
NextReentrant ==
    \/ \E ctx \in ContextArgs : Len(locs) < ReMaxLoc /\ ContextRoot(ctx)
    \/ \E ctx \in ContextArgs, name \in {StrA, StrEmpty} :
          Len(locs) < ReMaxLoc /\ ContextForName(ctx, name)
    \/ \E ctx \in ContextArgs, name \in {StrA, StrEmpty} :
          /\ Len(locs) < ReMaxLoc
          /\ (Len(name) > 0 /\ ctx \in LocIds /\ name \in DOMAIN locs[ctx].Children)
                => StartBounded(locs[ctx].Children[name])
          /\ StartNamed(ctx, name)
    \/ \E c \in LocIds, ctx \in ContextArgs :
          StartBounded(c) /\ CallContextStart(c, ctx)
    \/ \E c \in LocIds : ContextComplete(c)
    \/ Tick

SpecReentrant == InitRoot /\ [][NextReentrant]_vars

\* the Context is started: Start has set its start time and no Complete has
\* zeroed it since
ContextStarted(c) == locs[c].startTime # ZeroTime

\* C36: in the variant that records the start time on the timing Context
\* itself, Start and Complete strictly alternate: Start on a Context that is
\* already started panics without changing EntryCount, and Complete on a
\* Context that is not started panics without changing ExitCount or
\* TotalDuration.
C36_StartCompleteAlternate ==
    /\ [](\A c \in LocIds :
            locs[c].EntryCount = locs[c].ExitCount + (IF ContextStarted(c) THEN 1 ELSE 0))
    /\ [][\A c \in LocIds :
            LET called(op) == out' # out /\ out'.kind # "none" /\ "op" \in DOMAIN out'
                              /\ out'.op = op /\ out'.ctx = c
            IN  /\ (called("Start") /\ ContextStarted(c)) =>
                       /\ out'.kind = "panic"
                       /\ locs'[c].EntryCount = locs[c].EntryCount
                /\ (called("Complete") /\ ~ContextStarted(c)) =>
                       /\ out'.kind = "panic"
                       /\ locs'[c].ExitCount = locs[c].ExitCount
                       /\ locs'[c].TotalDuration = locs[c].TotalDuration
                /\ locs'[c].EntryCount # locs[c].EntryCount =>
                       /\ ~ContextStarted(c) /\ ContextStarted(c)'
                       /\ locs'[c].EntryCount = locs[c].EntryCount + 1
                       /\ locs'[c].ExitCount = locs[c].ExitCount
                /\ locs'[c].ExitCount # locs[c].ExitCount =>
                       /\ ContextStarted(c) /\ ~ContextStarted(c)'
                       /\ locs'[c].ExitCount = locs[c].ExitCount + 1
                       /\ locs'[c].EntryCount = locs[c].EntryCount
       ]_vars

\* a child Context was started, a second Start on it panicked, it was
\* completed after a tick and a second Complete on it has just panicked
C36_Witness ==
    /\ out.kind = "panic"
    /\ "op" \in DOMAIN out
    /\ out.op = "Complete"
    /\ locs[out.ctx].parent # NoLoc
    /\ locs[out.ctx].EntryCount = 1
    /\ locs[out.ctx].ExitCount = 1
    /\ locs[out.ctx].TotalDuration = 1
    /\ ~ContextStarted(out.ctx)

\* ---------------------------------------------------------------------
\* CallOrder and Children

\* C37: in every state reachable through the API, the CallOrder of a
\* Location contains each key of its Children map exactly once and no other
\* name, in the order in which the children were first created (Locations
\* are numbered in the order of their allocation).
C37_CallOrderListsChildren ==
    \A l \in LocIds :
        LET order == locs[l].CallOrder
        IN  /\ Len(order) = Cardinality(DOMAIN locs[l].Children)
            /\ {order[i] : i \in 1..Len(order)} = DOMAIN locs[l].Children
            /\ \A i, j \in 1..Len(order) :
                  i < j => locs[l].Children[order[i]] < locs[l].Children[order[j]]

\* a Location has two children and the one created first sorts last, while
\* a second goroutine is inside getChild of the same Location
C37_Witness ==
    \E l \in LocIds :
        /\ locs[l].CallOrder = <<StrAGtA, StrA>>
        /\ DOMAIN locs[l].Children = {StrA, StrAGtA}
        /\ locs[l].Children[StrAGtA] < locs[l].Children[StrA]
        /\ \E g \in Goroutines : gs[g].pc = "unlock" /\ gs[g].parent = l

\* ---------------------------------------------------------------------
\* The report of a decoded tree

\* the decoded tree d as Locations on the heap h, below parent: what
\* json.Unmarshal allocates.  CallOrder is tagged "-" and stays empty.
RECURSIVE DecodedInto(_, _, _)
RECURSIVE DecodedChildrenInto(_, _, _, _)
DecodedInto(h, d, parent) ==
    LET l == Len(h) + 1
        L == [NewLocation(d.Name, parent) EXCEPT !.EntryCount = d.EntryCount,
                                                 !.ExitCount = d.ExitCount,
                                                 !.TotalDuration = d.TotalDuration,
                                                 !.Async = d.Async,
                                                 !.Details = d.Details]
    IN  DecodedChildrenInto(Append(h, L), l, d.Children, SortStrings(DOMAIN d.Children))

DecodedChildrenInto(h, l, children, keys) ==
    IF keys = <<>> THEN h
    ELSE LET c == Len(h) + 1
             withChild == DecodedInto(h, children[Head(keys)], l)
         IN  DecodedChildrenInto([withChild EXCEPT ![l].Children = MapPut(@, Head(keys), c)],
                                 l, children, Tail(keys))

\* var decoded Location; json.Unmarshal(js, &decoded), with the decoded
\* Location kept on the heap
UnmarshalNew ==
    /\ out.kind = "Marshal"
    /\ locs' = DecodedInto(locs, UnmarshalLocation(out.js), NoLoc)
    /\ out' = [kind |-> "Unmarshal", loc |-> out.loc, js |-> out.js,
               decoded |-> UnmarshalLocation(out.js), copy |-> Len(locs) + 1]
    /\ UNCHANGED <<spans, gs, now, timings>>

\* l.Report(options) and decoded.Report(options) for the last decoded tree
ReportBoth(options) ==
    LET opts == IF options.Separator = StrEmpty
                THEN [options EXCEPT !.Separator = IF options.Compact THEN StrBarDefault
                                                   ELSE StrGtDefault]
                ELSE options
    IN  /\ out.kind = "Unmarshal"
        /\ "copy" \in DOMAIN out
        /\ out' = [kind |-> "Reports", loc |-> out.loc, copy |-> out.copy, options |-> opts,
                   lines |-> dumpToBuilder(out.loc, StrEmpty, opts),
                   decodedLines |-> dumpToBuilder(out.copy, StrEmpty, opts)]
        /\ UNCHANGED <<locs, spans, gs, now, timings>>

\* SpecDecoded: the caller encodes a finished tree, decodes what the encoder
\* wrote and asks for the report of both trees.
NextDecoded ==
    \/ \E l \in Roots : Len(locs) <= JsonMaxLoc /\ Marshal(l)
    \/ UnmarshalNew
    \/ \E options \in ReportOptions : ReportBoth(options)

SpecDecoded == InitJSON /\ [][NextDecoded]_vars

\* the nodes a report lists: path and name of every line, in order
Listed(lines) == [i \in 1..Len(lines) |-> <<lines[i].path, lines[i].name>>]

\* the named Locations of the tree of l
NamedBelow(l) == {x \in {l} \cup Descendants(l) : ~Unnamed(x)}

\* C38: every Location present in the Children map of a node is visited by
\* Report, also for a tree whose Children were populated by JSON decoding or
\* directly through the public fields: the report of the tree decoded from
\* the JSON encoding of a tree T lists the same nodes as the report of T.
C38_DecodedReportListsSameNodes ==
    out.kind = "Reports" =>
        /\ {out.lines[i].loc : i \in 1..Len(out.lines)} = NamedBelow(out.loc)
        /\ {out.decodedLines[i].loc : i \in 1..Len(out.decodedLines)} = NamedBelow(out.copy)
        /\ Listed(out.decodedLines) = Listed(out.lines)

\* the part that holds: Report visits every named Location of both trees,
\* the decoded one has no CallOrder, and the two reports list the same
\* nodes when the names are valid UTF-8
C38_DecodedReportValidNames ==
    out.kind = "Reports" =>
        /\ {out.lines[i].loc : i \in 1..Len(out.lines)} = NamedBelow(out.loc)
        /\ {out.decodedLines[i].loc : i \in 1..Len(out.decodedLines)} = NamedBelow(out.copy)
        /\ \A x \in {out.copy} \cup Descendants(out.copy) : locs[x].CallOrder = <<>>
        /\ ValidNames(out.loc) => Listed(out.decodedLines) = Listed(out.lines)

\* ---------------------------------------------------------------------
\* Properly nested spans of one goroutine

NestMaxLoc == 3
NestMaxSpan == 3

\* the spans whose Complete function has not been invoked
OpenSpans == {s \in SpanIds : spans[s].invoked = 0}

\* the innermost open span: the one started last
Innermost == CHOOSE s \in OpenSpans : \A x \in OpenSpans : x <= s

\* a span of Location l would lie inside the span of its parent Location
\* and overlap no span of a sibling or of l itself: the innermost open span
\* is at the parent of l, or l is a root and no span is open
NestsHere(l) ==
    IF OpenSpans = {} THEN locs[l].parent = NoLoc
    ELSE locs[l].parent = spans[Innermost].loc

\* SpecNested: a single caller whose spans are properly nested: a span is
\* started inside the span of its parent Location and completed before
\* anything else happens to that span, as with `defer complete()`.
NextNested ==
    \/ \E p \in LocIds, name \in Names :
          /\ Len(locs) < NestMaxLoc
          /\ ForName(p, name)
    \/ \E p \in LocIds, name \in Names, async \in BOOLEAN :
          /\ Len(locs) < NestMaxLoc /\ Len(spans) < NestMaxSpan
          /\ OpenSpans # {} /\ spans[Innermost].loc = p
          /\ Start(p, name, async)
    \/ \E l \in LocIds :
          /\ Len(spans) < NestMaxSpan
          /\ NestsHere(l)
          /\ LocationStart(l)
    \/ \E s \in OpenSpans : s = Innermost /\ Complete(s)
    \/ \E l \in Roots, options \in ReportOptions : Report(l, options)
    \/ Tick

SpecNested == Init /\ [][NextNested]_vars

\* every span of the Location has been completed, and there is one
NodeCompleted(l) == locs[l].ExitCount > 0 /\ locs[l].ExitCount = locs[l].EntryCount

\* C39: in a single-goroutine execution with a non-decreasing clock in
\* which every child span is started after its parent span started and
\* completed before its parent span completes, and sibling spans do not
\* overlap, every completed node has a sum of immediate children's
\* TotalDuration <= its own TotalDuration, so the self-time reported with
\* ExcludeChildren is never negative.  A node is completed when it has been
\* started and none of its spans is still in progress.
C39_SelfTimeNeverNegative ==
    /\ \A l \in LocIds :
          NodeCompleted(l) => ImmediateSum(l, Len(locs)) <= locs[l].TotalDuration
    /\ (out.kind = "Report" /\ out.options.ExcludeChildren) =>
          \A i \in 1..Len(out.lines) :
              NodeCompleted(out.lines[i].loc) => out.lines[i].duration[1] >= 0

\* a report with ExcludeChildren of a completed root that took one tick,
\* whose two children are completed and took that tick between them
C39_Witness ==
    /\ out.kind = "Report"
    /\ out.options.ExcludeChildren
    /\ \E i \in 1..Len(out.lines) :
          LET l == out.lines[i].loc
          IN  /\ NodeCompleted(l)
              /\ ~locs[l].Async
              /\ locs[l].TotalDuration = 1
              /\ Cardinality(ChildIds(l)) = 2
              /\ \A c \in ChildIds(l) : NodeCompleted(c)
              /\ ImmediateSum(l, Len(locs)) = 1
              /\ out.lines[i].duration = <<0>>

\* ---------------------------------------------------------------------
\* The Locations of sub-thread Timings

SubMaxLoc == 3
SubMaxSpan == 1
SubMaxTiming == 3

\* SpecSubThread: a caller makes a Timing, begins sub-threads from any
\* Timing there is, and spans are started and completed on any of them.
NextSubThread ==
    \/ Len(locs) < SubMaxLoc /\ Len(timings) < 1 /\ ContextWithTiming
    \/ \E ctx \in TimingCtxValues, name \in {StrA, StrAGtA} :
          /\ Len(locs) < SubMaxLoc /\ Len(timings) < SubMaxTiming
          /\ GlobalBeginSubThread(ctx, name)
    \/ \E ctx \in TimingCtxValues, name \in {StrA} :
          /\ Len(locs) < SubMaxLoc /\ Len(spans) < SubMaxSpan
          /\ GlobalStart(ctx, name)
    \/ \E s \in SpanIds : spans[s].invoked = 0 /\ TimingCompleted(s)
    \/ Tick

SpecSubThread == InitRoot /\ [][NextSubThread]_vars

\* the Timings made by BeginSubThread: those on a Location it has marked
SubThreadTimings == {t \in TimingIds : locs[timings[t].root].SubThread}

\* C40: each BeginSubThread call yields a Timing whose root Location is used
\* by no other Timing created by BeginSubThread: two sub-thread Timings
\* never share a Location, so goroutines that each work with only their own
\* sub-thread Timing never mutate the same Location.
C40_SubThreadRootsDistinct ==
    \A t1, t2 \in SubThreadTimings :
        t1 # t2 => timings[t1].root # timings[t2].root

====
